---- MODULE Spec2Model ----
(***************************************************************************)
(* Model of the INTELLISEARCH research workflow: the LangGraph state       *)
(* machine of src/src/graph.py driving the node functions of               *)
(* src/src/nodes.py over one shared state dictionary (AgentState).         *)
(*                                                                         *)
(* One action per node.  An action is the whole node function followed by  *)
(* the routing decision LangGraph takes on the returned state.  External   *)
(* collaborators (LLM, search engine, scraper, PDF loader, vector index,   *)
(* report sinks, the user at the prompt) are nondeterministic inputs drawn *)
(* from small sets.                                                        *)
(*                                                                         *)
(* Conventions: Python None / "" for an optional string is "none"; the     *)
(* error string is the sequence of its messages (None and "" are << >>);   *)
(* a SearchResult is [url, snippet]; a dict is a function on its key set.  *)
(***************************************************************************)
EXTENDS Integers, Sequences, FiniteSets, TLC

(***************************************************************************)
(* Program constants and bounds                                            *)
(***************************************************************************)
MAX_AI_ITERATIONS == 3
MAX_USER_QUERY_LOOPS == 3
TOP_URLS == 30
CONTENT_CAP == 10000
RECURSION_LIMIT == 100

\* longest result list one search call returns in the model
MaxResults == 2

\* the count of rejections saturates one above the cap it is compared with
HistoryCap == MAX_USER_QUERY_LOOPS + 1

(***************************************************************************)
(* The universe of inputs                                                  *)
(***************************************************************************)
NormalUrl == "https://a.com/x"
PdfUrl == "https://b.org/r.pdf"
BlockedUrl == "https://facebook.com/p"

Urls == {NormalUrl, PdfUrl, BlockedUrl}

\* the search results the search engine can return
SearchUniverse ==
    { [url |-> NormalUrl, snippet |-> "s1"],
      [url |-> NormalUrl, snippet |-> "s2"],
      [url |-> PdfUrl, snippet |-> "s3"],
      [url |-> BlockedUrl, snippet |-> "s4"] }

\* the results the engine has for a query
ResultsFor(query) ==
    IF query = "sq1" THEN SearchUniverse
    ELSE { [url |-> NormalUrl, snippet |-> "s1"] }

\* any(domain in url.lower() for domain in BLOCKED_DOMAINS)
IsBlockedDomain(url) == url \in {BlockedUrl}

\* url.lower().endswith('.pdf')
IsPdf(url) == url \in {PdfUrl}

\* url.lower().endswith(ext) for an ext of SKIP_EXTENSIONS other than .pdf
HasSkipExtension(url) == FALSE

InitialQuery == "q0"
UserQueries == {"q1", "q2"}

\* the automation flags a run is started with (AutomationConfig.to_state_dict,
\* or no flags at all)
Profiles ==
    { [name |-> "none", non_interactive |-> FALSE, auto_approve |-> FALSE,
       approval_choice |-> "none", new_query_override |-> "none",
       report_type_choice |-> "none", auto_report_type |-> "none"],
      [name |-> "full", non_interactive |-> TRUE, auto_approve |-> TRUE,
       approval_choice |-> "yes", new_query_override |-> "none",
       report_type_choice |-> "detailed", auto_report_type |-> "detailed"],
      [name |-> "query_only", non_interactive |-> FALSE, auto_approve |-> TRUE,
       approval_choice |-> "yes", new_query_override |-> "none",
       report_type_choice |-> "none", auto_report_type |-> "none"],
      [name |-> "reject", non_interactive |-> TRUE, auto_approve |-> FALSE,
       approval_choice |-> "no", new_query_override |-> "none",
       report_type_choice |-> "concise", auto_report_type |-> "none"],
      [name |-> "reject_override", non_interactive |-> TRUE, auto_approve |-> FALSE,
       approval_choice |-> "no", new_query_override |-> "q1",
       report_type_choice |-> "bogus", auto_report_type |-> "none"],
      [name |-> "no_flags", non_interactive |-> TRUE, auto_approve |-> FALSE,
       approval_choice |-> "none", new_query_override |-> "none",
       report_type_choice |-> "none", auto_report_type |-> "none"],
      [name |-> "auto", non_interactive |-> TRUE, auto_approve |-> TRUE,
       approval_choice |-> "none", new_query_override |-> "none",
       report_type_choice |-> "none", auto_report_type |-> "concise"],
      [name |-> "bad_choice", non_interactive |-> TRUE, auto_approve |-> TRUE,
       approval_choice |-> "yes", new_query_override |-> "none",
       report_type_choice |-> "bogus", auto_report_type |-> "concise"],
      [name |-> "bad_auto", non_interactive |-> TRUE, auto_approve |-> TRUE,
       approval_choice |-> "none", new_query_override |-> "none",
       report_type_choice |-> "none", auto_report_type |-> "bogus"] }

(***************************************************************************)
(* State                                                                   *)
(***************************************************************************)
VARIABLES
    pc,          \* the node LangGraph runs next ("END" after write_report)
    state,       \* the AgentState dictionary threaded through the nodes
    last_node,   \* the node that ran last
    obs          \* observations of the run (not program state)

vars == << pc, state, last_node, obs >>

EmptyDict == << >>

\* a report is known by its kind and its length in words; None is NoReport
NoReport == [ kind |-> "none", words |-> 0 ]

\* app.py run_workflow: initial_state, plus the automation flags
InitialState(profile) ==
    [ new_query |-> InitialQuery,
      search_queries |-> << >>,
      data |-> << >>,
      relevant_contexts |-> EmptyDict,
      relevant_chunks |-> << >>,
      proceed |-> TRUE,
      visited_urls |-> {},
      failed_urls |-> {},
      iteration_count |-> 0,
      report |-> NoReport,
      error |-> << >>,
      suggested_follow_up_queries |-> << >>,
      approval_iteration_count |-> 0,
      search_iteration_count |-> 0,
      report_type |-> "none",
      snippet_cache |-> EmptyDict,
      non_interactive |-> profile.non_interactive,
      auto_approve |-> profile.auto_approve,
      approval_choice |-> profile.approval_choice,
      new_query_override |-> profile.new_query_override,
      report_type_choice |-> profile.report_type_choice,
      auto_report_type |-> profile.auto_report_type ]

\* the observation record, blank.  The first four fields describe the
\* approval loop and last until the run leaves it; the others describe the
\* node that ran last
NoObs ==
    [ user_query |-> "none",          \* the query the user supplied last
      rejections |-> 0,               \* explicit rejections so far
      loopbacks |-> 0,                \* consecutive Approve -> GenerateQueries
      query_used |-> "none",          \* new_query create_queries worked from
      query_llm_call |-> FALSE,       \* create_queries called the LLM
      decision |-> "none",            \* what the approval gate decided
      cached_seen |-> {},             \* hashes of the results the searches returned
                                      \* that were in the cache when the stage began
      relevance_calls |-> {},         \* hashes sent to the relevance LLM call
      accepted |-> {},                \* results evaluate_snippet returned
      filtered |-> {},                \* URLs skipped as blocked domains by SearchFilter
      seen |-> {},                    \* hashes of the results the searches returned
      unanswered |-> {},              \* hashes whose relevance calls in the search stage
                                      \* that ran last all timed out or failed
      retried |-> {},                 \* hashes sent again after such a stage
      extraction_failed |-> {},       \* attempted URLs whose scrape or load failed or timed out
      attempted |-> {},               \* URLs Fetch started an extraction task for
      index |-> "none",               \* the branch embed_index_and_extract returned from
      judge |-> "none",               \* outcome of the Judge's LLM call
      judge_msg |-> "none",           \* the message of the exception it raised
      raised |-> "none",              \* the exception that ended the run
      prompted |-> FALSE,             \* the node called input()
      report_answer |-> "none",       \* what was typed at the report type prompt
      prompts |-> 0,                  \* input() calls of choose_report_type
      sinks_called |-> {},            \* report sinks write_report invoked
      sinks_failed |-> {},            \* those that reported a failure
      section_texts |-> << >>,        \* section_texts of write_report
      section_replies |-> << >>,      \* what the section calls returned, -1 for None
      generated_words |-> 0 ]         \* words of the report before truncation

Sat(n) == IF n >= HistoryCap THEN HistoryCap ELSE n

\* (current_error + "\n" + "\n".join(errors)).strip()
AppendError(current_error, errors) == current_error \o errors

\* the observation a node of a search round keeps from the search stage
InRound(o, new) == [ new EXCEPT !.unanswered = o.unanswered ]

\* the observations a node of the approval loop keeps
Carry(o) ==
    [ NoObs EXCEPT !.user_query = o.user_query,
                   !.rejections = o.rejections,
                   !.loopbacks = o.loopbacks ]

Init ==
    /\ pc = "create_queries"
    /\ state \in { InitialState(p) : p \in Profiles }
    /\ last_node = "START"
    /\ obs = NoObs

(***************************************************************************)
(* GenerateQueries: create_queries                                         *)
(***************************************************************************)
\* what the LLM call and the parsing of its reply come to: a validated
\* SearchQueryResponse (at least one query), or the message of the failure
AllQueryGenReplies ==
    { [ok |-> TRUE, query |-> << "sq1" >>, msg |-> "none"],
      [ok |-> TRUE, query |-> << "sq1", "sq2" >>, msg |-> "none"],
      [ok |-> FALSE, query |-> << >>,
       msg |-> "Could not find JSON block in LLM response for query generation."] }


\* the branch that reuses the Judge's follow-up queries
ReuseFollowUps(s) ==
    /\ s.suggested_follow_up_queries # << >>
    /\ s.iteration_count < MAX_AI_ITERATIONS
    /\ s.relevant_chunks # << >>

create_queries(s, o, w) ==
    IF ReuseFollowUps(s)
    THEN { [ s |-> [ s EXCEPT !.suggested_follow_up_queries = << >>,
                              !.search_queries = s.suggested_follow_up_queries,
                              !.error = << >> ],
             o |-> [ Carry(o) EXCEPT !.query_used = s.new_query ] ] }
    ELSE IF s.new_query = "none"
    THEN { [ s |-> [ s EXCEPT !.search_queries = << >>,
                              !.error = AppendError(s.error,
                                           << "No initial query provided in state." >>),
                              !.suggested_follow_up_queries = << >> ],
             o |-> [ Carry(o) EXCEPT !.query_used = s.new_query ] ] }
    ELSE IF ~w.available.llm
    THEN { [ s |-> [ s EXCEPT !.search_queries = << >>,
                              !.error = AppendError(s.error,
                                           << "Primary LLM is not initialized. Cannot generate queries." >>),
                              !.suggested_follow_up_queries = << >> ],
             o |-> [ Carry(o) EXCEPT !.query_used = s.new_query ] ] }
    ELSE { [ s |-> [ s EXCEPT !.search_queries = r.query,
                              !.error = IF r.ok THEN s.error
                                        ELSE AppendError(s.error, << r.msg >>),
                              !.suggested_follow_up_queries = << >> ],
             o |-> [ Carry(o) EXCEPT !.query_used = s.new_query,
                                     !.query_llm_call = TRUE ] ]
           : r \in w.query_gen }

\* graph.py: add_edge("create_queries", "user_approval")
CreateQueries(w) ==
    /\ pc = "create_queries"
    /\ \E n \in create_queries(state, obs, w) :
          /\ state' = n.s
          /\ obs' = n.o
    /\ pc' = "user_approval"
    /\ last_node' = "create_queries"

(***************************************************************************)
(* Approve: user_approval_for_queries                                      *)
(***************************************************************************)
\* the "Reset state" block of a rejection
ResetForNewQuery(s, new_query) ==
    [ s EXCEPT !.proceed = FALSE,
               !.new_query = new_query,
               !.search_queries = << >>,
               !.data = << >>,
               !.relevant_contexts = EmptyDict,
               !.relevant_chunks = << >>,
               !.visited_urls = {},
               !.iteration_count = 0,
               !.approval_iteration_count = 0,
               !.error = << >>,
               !.suggested_follow_up_queries = << >> ]

\* "state['proceed'] = True; state['error'] = None; return state"
ApproveYes(s) == [ s EXCEPT !.proceed = TRUE, !.error = << >> ]

\* the branch taken with no usable answer: "Defaulting to no."
DefaultNo(s) == [ s EXCEPT !.proceed = FALSE ]

\* what the user does at the interactive prompt, which allows 5 answers:
\* says yes, says no and types a new query, or gives 5 invalid answers
AllPromptAnswers ==
    { [answer |-> "yes", new_query |-> "none"],
      [answer |-> "invalid", new_query |-> "none"] }
    \cup { [answer |-> "no", new_query |-> q] : q \in UserQueries }

\* the function after the counter increment: the set of states it can return,
\* with the decision taken and the query the user supplied, if any
ApprovalOutcomes(s, w) ==
    IF s.non_interactive
    THEN IF s.approval_choice # "none"
         THEN IF s.approval_choice \in { "yes", "y" }
              THEN { [ s |-> ApproveYes(s), decision |-> "yes", user_query |-> "none",
                       prompted |-> FALSE ] }
              ELSE LET new_query == IF s.new_query_override # "none"
                                    THEN s.new_query_override ELSE s.new_query
                   IN { [ s |-> ResetForNewQuery(s, new_query), decision |-> "no",
                          user_query |-> new_query, prompted |-> FALSE ] }
         ELSE IF s.auto_approve
         THEN { [ s |-> ApproveYes(s), decision |-> "yes", user_query |-> "none",
                  prompted |-> FALSE ] }
         ELSE { [ s |-> DefaultNo(s), decision |-> "default_no", user_query |-> "none",
                  prompted |-> FALSE ] }
    ELSE IF s.search_queries # << >>
    THEN { IF a.answer = "yes"
           THEN [ s |-> ApproveYes(s), decision |-> "yes", user_query |-> "none",
                  prompted |-> TRUE ]
           ELSE IF a.answer = "no"
           THEN [ s |-> ResetForNewQuery(s, a.new_query), decision |-> "no",
                  user_query |-> a.new_query, prompted |-> TRUE ]
           ELSE [ s |-> DefaultNo(s), decision |-> "default_no", user_query |-> "none",
                  prompted |-> TRUE ]
           : a \in w.approval_prompt }
    ELSE { [ s |-> ResetForNewQuery(s, q), decision |-> "no", user_query |-> q,
             prompted |-> TRUE ]
           : q \in { a.new_query : a \in { b \in w.approval_prompt : b.answer = "no" } } }

user_approval_for_queries(s, w) ==
    ApprovalOutcomes([ s EXCEPT !.approval_iteration_count = @ + 1 ], w)

\* conditions.py route_user_approval: accepted queries go to the search; a
\* refusal goes back to query generation until the configured number of
\* approval loops is used up, and then the run is forced forward
route_user_approval(s) ==
    IF s.proceed THEN { "evaluate_search_results" }
    ELSE IF s.approval_iteration_count >= MAX_USER_QUERY_LOOPS
    THEN { "evaluate_search_results", "choose_report_type" }
    ELSE { "create_queries" }

\* app.py: app.astream(initial_state, config=RunnableConfig(recursion_limit=100)).
\* The approval loop is the only loop of the graph without a counter of its
\* own; each turn of it is two supersteps, and the run is stopped with
\* GraphRecursionError when the next turn would pass the limit
OutOfSteps(loopbacks) == 2 * (loopbacks + 1) >= RECURSION_LIMIT

UserApproval(w) ==
    /\ pc = "user_approval"
    /\ \E n \in user_approval_for_queries(state, w) :
       \E target \in route_user_approval(n.s) :
          /\ state' = n.s
          /\ pc' = IF target = "create_queries" /\ OutOfSteps(obs.loopbacks)
                   THEN "aborted" ELSE target
          /\ obs' = [ Carry(obs) EXCEPT
                 !.decision = n.decision,
                 !.prompted = n.prompted,
                 !.user_query = IF n.user_query # "none" THEN n.user_query ELSE @,
                 !.rejections = IF n.decision = "no" THEN Sat(@ + 1) ELSE @,
                 !.loopbacks = IF target = "create_queries" THEN @ + 1 ELSE @,
                 !.raised = IF pc' = "aborted" THEN "GraphRecursionError" ELSE @ ]
    /\ last_node' = "user_approval"

(***************************************************************************)
(* SearchFilter: evaluate_search_results                                   *)
(***************************************************************************)
\* sha256(f"{url}|{snippet}").hexdigest(): the digest stands for its input
hash_snippet(url, snippet) == url \o "|" \o snippet

\* snippet_cache[key] = value on a dict
DictPut(dict, key, value) ==
    [ k \in DOMAIN dict \cup { key } |-> IF k = key THEN value ELSE dict[k] ]

SeqsUpTo(S, n) == UNION { [1..k -> S] : k \in 0..n }

\* what search_engine.search(q) comes to under gather(return_exceptions=True)
AllSearchReplies(query) ==
    { [raised |-> TRUE, results |-> << >>] }
    \cup { [raised |-> FALSE, results |-> rs] : rs \in SeqsUpTo(ResultsFor(query), MaxResults) }

\* what the relevance call llm.ainvoke under wait_for(timeout=15) comes to
AllRelevanceReplies == { "yes", "no", "timeout", "error" }

\* an evaluate_snippet without the blocked-domain check
SkippedBeforeCache_no_block(result, visited_urls, failed_urls) ==
    \/ result.url = "none"
    \/ result.url \in visited_urls
    \/ result.url \in failed_urls
    \/ result.snippet = "none"

\* the checks of evaluate_snippet that return None before the cache is read
SkippedBeforeCache(result, visited_urls, failed_urls) ==
    \/ result.url = "none"
    \/ result.url \in visited_urls
    \/ result.url \in failed_urls
    \/ result.snippet = "none"
    \/ IsBlockedDomain(result.url)

\* a cache lookup that ignores the verdict
CachedDecision_any(cached) == TRUE

\* "return result if cached == 'yes' else None"
CachedDecision(cached) == cached = "yes"

\* an evaluate_snippet that caches "no" when the call times out or fails
evaluate_snippet_caching_no_answer(result, visited_urls, failed_urls, snippet_cache, reply) ==
    LET snippet_hash == hash_snippet(result.url, result.snippet)
    IN  IF SkippedBeforeCache(result, visited_urls, failed_urls)
        THEN [ returned |-> FALSE, called |-> FALSE, verdict |-> "none", err |-> "none" ]
        ELSE IF snippet_hash \in DOMAIN snippet_cache
        THEN [ returned |-> CachedDecision(snippet_cache[snippet_hash]),
               called |-> FALSE, verdict |-> "none", err |-> "none" ]
        ELSE IF reply \in { "yes", "no" }
        THEN [ returned |-> (reply = "yes"), called |-> TRUE, verdict |-> reply,
               err |-> "none" ]
        ELSE [ returned |-> FALSE, called |-> TRUE, verdict |-> "no", err |-> "none" ]

\* one evaluate_snippet task: whether it returns the result, whether it calls
\* the LLM, the verdict it writes to the cache and the error it records
evaluate_snippet(result, visited_urls, failed_urls, snippet_cache, reply) ==
    LET snippet_hash == hash_snippet(result.url, result.snippet)
    IN  IF SkippedBeforeCache(result, visited_urls, failed_urls)
        THEN [ returned |-> FALSE, called |-> FALSE, verdict |-> "none", err |-> "none" ]
        ELSE IF snippet_hash \in DOMAIN snippet_cache
        THEN [ returned |-> CachedDecision(snippet_cache[snippet_hash]),
               called |-> FALSE, verdict |-> "none", err |-> "none" ]
        ELSE IF reply \in { "yes", "no" }
        THEN [ returned |-> (reply = "yes"), called |-> TRUE, verdict |-> reply,
               err |-> "none" ]
        ELSE IF reply = "timeout"
        THEN [ returned |-> FALSE, called |-> TRUE, verdict |-> "none", err |-> "none" ]
        ELSE [ returned |-> FALSE, called |-> TRUE, verdict |-> "none",
               err |-> "Error evaluating " \o result.url ]

RECURSIVE Select(_, _, _)
\* the elements seq[i], i >= from, with keep[i], in order
Select(seq, keep, from) ==
    IF from > Len(seq) THEN << >>
    ELSE (IF keep[from] THEN << seq[from] >> ELSE << >>) \o Select(seq, keep, from + 1)

RECURSIVE WriteVerdicts(_, _, _, _)
\* the cache after the tasks order[from..] have written their verdicts
WriteVerdicts(cache, result_set, tasks, order) ==
    IF order = << >> THEN cache
    ELSE LET i == Head(order)
             next == IF tasks[i].verdict = "none" THEN cache
                     ELSE DictPut(cache,
                                  hash_snippet(result_set[i].url, result_set[i].snippet),
                                  tasks[i].verdict)
         IN WriteVerdicts(next, result_set, tasks, Tail(order))

\* the orders in which the tasks of one gather can finish their LLM calls
CompletionOrders(n) ==
    { [ i \in 1..n |-> i ], [ i \in 1..n |-> n + 1 - i ] }

\* the tasks that end at "Skipping blocked domain URL"
BlockedTasks(result_set) ==
    { i \in 1..Len(result_set) :
        /\ result_set[i].url # "none"
        /\ result_set[i].snippet # "none"
        /\ IsBlockedDomain(result_set[i].url) }

\* the loop body for one query's result set: its tasks start together (all
\* read visited_urls and the cache as they are at the gather), and after the
\* gather the results returned are appended and their URLs marked visited
EvalResultSet(acc, failed_urls, result_set, replies, order) ==
    LET n == Len(result_set)
        tasks == [ i \in 1..n |->
                     evaluate_snippet(result_set[i], acc.visited_urls, failed_urls,
                                      acc.snippet_cache, replies[i]) ]
        returned == Select(result_set, [ i \in 1..n |-> tasks[i].returned ], 1)
        calls == Select([ i \in 1..n |->
                            hash_snippet(result_set[i].url, result_set[i].snippet) ],
                        [ i \in 1..n |-> tasks[i].called ], 1)
        errs == Select([ i \in 1..n |-> tasks[i].err ],
                       [ i \in 1..n |-> tasks[i].err # "none" ], 1)
    IN  [ evaluated_results |-> acc.evaluated_results \o returned,
          visited_urls |-> acc.visited_urls \cup { returned[i].url : i \in 1..Len(returned) },
          snippet_cache |-> WriteVerdicts(acc.snippet_cache, result_set, tasks, order),
          errors |-> acc.errors \o errs,
          calls |-> acc.calls \cup { calls[i] : i \in 1..Len(calls) },
          no_answer |-> acc.no_answer
                        \cup { hash_snippet(result_set[i].url, result_set[i].snippet) :
                                 i \in { j \in 1..n : tasks[j].called
                                                       /\ replies[j] \notin { "yes", "no" } } },
          answered |-> acc.answered
                       \cup { hash_snippet(result_set[i].url, result_set[i].snippet) :
                                i \in { j \in 1..n : tasks[j].called
                                                      /\ replies[j] \in { "yes", "no" } } },
          seen |-> acc.seen \cup { hash_snippet(result_set[i].url, result_set[i].snippet) :
                                     i \in 1..n },
          blocked |-> acc.blocked \cup { result_set[i].url : i \in BlockedTasks(result_set) } ]

\* replies for the tasks of a result set; a task that makes no call has none
RepliesFor(acc, failed_urls, result_set, w) ==
    { replies \in [ 1..Len(result_set) -> w.relevance ] :
        \A i \in 1..Len(result_set) :
            evaluate_snippet(result_set[i], acc.visited_urls, failed_urls,
                             acc.snippet_cache, "yes").called
            \/ replies[i] = CHOOSE r \in w.relevance : TRUE }

\* one iteration of "for i, result_set in enumerate(search_results_list)"
QueryOutcomes(acc, failed_urls, query, w) ==
    UNION {
        IF reply.raised
        THEN { [ acc EXCEPT !.errors = @ \o << "Search failed for query " \o query >> ] }
        ELSE IF reply.results = << >>
        THEN { [ acc EXCEPT !.errors = @ \o << "No results returned for query " \o query >> ] }
        ELSE { EvalResultSet(acc, failed_urls, reply.results, replies, order) :
                 replies \in RepliesFor(acc, failed_urls, reply.results, w),
                 order \in CompletionOrders(Len(reply.results)) }
        : reply \in w.search[query] }

RECURSIVE FilterRuns(_, _, _, _)
\* the accumulators the loop over the queries can end with
FilterRuns(accs, failed_urls, queries, w) ==
    IF queries = << >> THEN accs
    ELSE FilterRuns(UNION { QueryOutcomes(acc, failed_urls, Head(queries), w) : acc \in accs },
                    failed_urls, Tail(queries), w)

RECURSIVE DedupByUrl(_, _)
\* list({item.url: item for item in items}.values()): one entry per URL, at
\* the position of the URL's first occurrence, holding its last occurrence
DedupByUrl(items, done) ==
    IF items = << >> THEN << >>
    ELSE LET url == Head(items).url
             same == { i \in 1..Len(items) : items[i].url = url }
             last == CHOOSE i \in same : \A j \in same : j <= i
         IN  IF url \in done THEN DedupByUrl(Tail(items), done)
             ELSE << items[last] >> \o DedupByUrl(Tail(items), done \cup { url })

\* a merge that keeps every entry
MergeResults_keep_all(existing_data, evaluated_results) ==
    existing_data \o evaluated_results

\* "Merge and deduplicate with previous data"
MergeResults(existing_data, evaluated_results) ==
    DedupByUrl(existing_data \o evaluated_results, {})

evaluate_search_results(s, w) ==
    IF s.search_queries = << >>
    THEN { [ s |-> s, o |-> NoObs ] }
    ELSE IF ~w.available.searcher
    THEN { [ s |-> [ s EXCEPT !.data = << >>,
                              !.error = << "UnifiedSearcher class not available. Cannot perform search." >> ],
             o |-> NoObs ] }
    ELSE { [ s |-> [ s EXCEPT !.data = MergeResults(s.data, acc.evaluated_results),
                              !.visited_urls = acc.visited_urls,
                              !.snippet_cache = acc.snippet_cache,
                              !.error = acc.errors ],
             o |-> [ NoObs EXCEPT
                       !.cached_seen = acc.seen \cap DOMAIN s.snippet_cache,
                       !.relevance_calls = acc.calls,
                       !.seen = acc.seen,
                       !.unanswered = acc.no_answer \ acc.answered,
                       !.accepted = { acc.evaluated_results[i] :
                                        i \in 1..Len(acc.evaluated_results) },
                       !.filtered = acc.blocked ] ]
           : acc \in FilterRuns({ [ evaluated_results |-> << >>,
                                    visited_urls |-> s.visited_urls,
                                    snippet_cache |-> s.snippet_cache,
                                    errors |-> << >>,
                                    calls |-> {},
                                    no_answer |-> {},
                                    answered |-> {},
                                    seen |-> {},
                                    blocked |-> {} ] },
                                s.failed_urls, s.search_queries, w) }

\* graph.py: add_edge("evaluate_search_results", "extract_content")
EvaluateSearchResults(w) ==
    /\ pc = "evaluate_search_results"
    /\ \E n \in evaluate_search_results(state, w) :
          /\ state' = n.s
          /\ obs' = [ n.o EXCEPT !.retried = obs.unanswered \cap n.o.relevance_calls ]
    /\ pc' = "extract_content"
    /\ last_node' = "evaluate_search_results"

(***************************************************************************)
(* Fetch: extract_content                                                  *)
(***************************************************************************)
Min(a, b) == IF a <= b THEN a ELSE b

\* len(snippet) of a search result
SnippetLen(snippet) == 120

\* content is known by where it came from and its length in characters
NoContent == [ src |-> "none", len |-> 0 ]
Snippet(result) ==
    [ src |-> result.snippet, len |-> Min(SnippetLen(result.snippet), CONTENT_CAP) ]
\* a Fetch that keeps the whole text of a page
Page_uncut(len) == [ src |-> "page", len |-> len ]

\* "scraped_content.text[:10000]", "extracted_content[:10000]"
Page(len) == [ src |-> "page", len |-> Min(len, CONTENT_CAP) ]

\* what scraper.scrape_url under wait_for(timeout=url_timeout) comes to: a
\* successful scrape with len characters of text, an unsuccessful one, a
\* timeout or another exception
AllScrapeReplies ==
    { [kind |-> "ok", len |-> 500], [kind |-> "ok", len |-> 0],
      [kind |-> "ok", len |-> 20000], [kind |-> "unsuccessful", len |-> 0],
      [kind |-> "timeout", len |-> 0], [kind |-> "error", len |-> 0] }

\* what loader.load under wait_for comes to: documents whose cleaned text
\* has len characters, no documents, a timeout or another exception
AllPdfReplies ==
    { [kind |-> "ok", len |-> 500], [kind |-> "ok", len |-> 0],
      [kind |-> "no_documents", len |-> 0],
      [kind |-> "timeout", len |-> 0], [kind |-> "error", len |-> 0] }

\* the snippet fallback: the snippet of the URL's search result, or nothing
SnippetFallback(result) ==
    IF result.snippet # "none" THEN Snippet(result) ELSE NoContent

\* process_single_url_with_timeout: the content returned for target_url
\* (NoContent stands for None and for "")
process_single_url_with_timeout(target_url, result, reply) ==
    IF IsPdf(target_url)
    THEN IF reply.kind = "ok" THEN Page(reply.len)
         ELSE IF reply.kind = "no_documents" THEN SnippetFallback(result)
         ELSE NoContent
    ELSE IF reply.kind = "ok" THEN Page(reply.len)
         ELSE SnippetFallback(result)

\* a Fetch without the failed-URL filter
NotFailed_unfiltered(urls, failed_urls) == urls

\* "urls_to_process = [url for url in urls_to_process if url not in failed_urls]"
NotFailed(urls, failed_urls) == SelectSeq(urls, LAMBDA u : u \notin failed_urls)

\* the loop that skips blocked domains and skipped extensions
NotSkipped(urls) ==
    SelectSeq(urls, LAMBDA u : ~IsBlockedDomain(u) /\ ~HasSkipExtension(u))

Range(seq) == { seq[i] : i \in 1..Len(seq) }

\* rank_urls: the URLs in some order of relevance
Rankings(urls) ==
    { r \in [ 1..Len(urls) -> Range(urls) ] : Range(r) = Range(urls) }

\* ranked_urls[:30]
Top(ranked, k) == SubSeq(ranked, 1, Min(Len(ranked), k))

\* the URLs extraction tasks are created for
UrlsToAttempt(ranked_urls, failed_urls) ==
    NotSkipped(NotFailed(Top(ranked_urls, TOP_URLS), failed_urls))

\* url_to_search_result = {item.url: item for item in valid_data}
ResultOf(valid_data, url) ==
    LET same == { i \in 1..Len(valid_data) : valid_data[i].url = url }
    IN  valid_data[CHOOSE i \in same : \A j \in same : j <= i]

\* a Fetch that marks every attempted URL as failed
NewFailedUrls_all(tasks, got) == tasks

\* "else: new_failed_urls.append(url)": the attempted URLs without content
NewFailedUrls(tasks, got) == tasks \ got

\* a Fetch that keeps only this round's failures
UpdatedFailedUrls_replaced(current_failed_urls, new_failed_urls) == new_failed_urls

\* list(set(current_failed_urls + new_failed_urls))
UpdatedFailedUrls(current_failed_urls, new_failed_urls) ==
    current_failed_urls \cup new_failed_urls

extract_content(s, w) ==
    LET valid_data == SelectSeq(s.data, LAMBDA item : item.url # "none" /\ item.snippet # "none")
    IN
    IF s.data = << >>
    THEN { [ s |-> [ s EXCEPT !.relevant_contexts = EmptyDict,
                              !.error = AppendError(@, << "No data found to extract content from." >>) ],
             o |-> NoObs ] }
    ELSE IF valid_data = << >>
    THEN { [ s |-> [ s EXCEPT !.relevant_contexts = EmptyDict,
                              !.error = AppendError(@, << "No valid data found for ranking." >>) ],
             o |-> NoObs ] }
    ELSE UNION {
        LET urls == UrlsToAttempt(ranked, s.failed_urls)
            tasks == Range(urls)
        IN  { LET content == [ u \in tasks |->
                                 process_single_url_with_timeout(u, ResultOf(valid_data, u),
                                                                 replies[u]) ]
                  got == { u \in tasks : content[u].len > 0 }
                  new_failed_urls == NewFailedUrls(tasks, got)
                  relevant_contexts == [ u \in got |-> content[u] ]
              IN  [ s |-> [ s EXCEPT
                              !.failed_urls = UpdatedFailedUrls(@, new_failed_urls),
                              !.relevant_contexts = relevant_contexts,
                              !.error = IF got = {}
                                        THEN AppendError(@,
                                               << "Failed to extract usable content from any relevant URLs." >>)
                                        ELSE @ ],
                    o |-> [ NoObs EXCEPT
                              !.attempted = tasks,
                              !.extraction_failed = { u \in tasks : replies[u].kind # "ok" } ] ]
              : replies \in [ tasks -> w.scrape \cup w.pdf ] \cap
                            { f \in [ tasks -> w.scrape \cup w.pdf ] :
                                \A u \in tasks : f[u] \in (IF IsPdf(u) THEN w.pdf ELSE w.scrape) } }
        : ranked \in Rankings([ i \in 1..Len(valid_data) |-> valid_data[i].url ]) }

\* extract_content with its edge drawn to AI_evaluate instead
ExtractContent_past_index(w) ==
    /\ pc = "extract_content"
    /\ \E n \in extract_content(state, w) :
          /\ state' = n.s
          /\ obs' = InRound(obs, n.o)
    /\ pc' = "AI_evaluate"
    /\ last_node' = "extract_content"

\* graph.py: add_edge("extract_content", "embed_index_and_extract")
ExtractContent(w) ==
    /\ pc = "extract_content"
    /\ \E n \in extract_content(state, w) :
          /\ state' = n.s
          /\ obs' = InRound(obs, n.o)
    /\ pc' = "embed_index_and_extract"
    /\ last_node' = "extract_content"

(***************************************************************************)
(* IndexRetrieve: embed_index_and_extract                                  *)
(***************************************************************************)
N_CHUNKS == 10
CHUNK_SIZE == 1000
CHUNK_OVERLAP == 100

\* RecursiveCharacterTextSplitter(chunk_size=1000, chunk_overlap=100): the
\* number of windows that cover len characters
ChunkCount(len) ==
    IF len = 0 THEN 0
    ELSE IF len <= CHUNK_SIZE THEN 1
    ELSE 1 + ((len - CHUNK_SIZE) + (CHUNK_SIZE - CHUNK_OVERLAP) - 1)
                \div (CHUNK_SIZE - CHUNK_OVERLAP)

\* the order in which the contexts are chunked
UrlOrder == << NormalUrl, PdfUrl, BlockedUrl >>

RECURSIVE Documents(_, _)
\* the Documents built from the contexts, {"source": url, "chunk_index": i},
\* for the URLs urls[from..]
Documents(relevant_contexts, urls) ==
    IF urls = << >> THEN << >>
    ELSE (IF Head(urls) \in DOMAIN relevant_contexts
          THEN [ i \in 1..ChunkCount(relevant_contexts[Head(urls)].len) |->
                   [ source |-> Head(urls), chunk_index |-> i - 1 ] ]
          ELSE << >>)
         \o Documents(relevant_contexts, Tail(urls))

\* what building the index and querying it come to
AllIndexReplies == { "ok", "index_error", "retrieval_error" }

\* retriever.invoke with k = N_CHUNKS: at most k of the indexed chunks
TopK(documents, k) == SubSeq(documents, 1, Min(Len(documents), k))

\* an index stage that keeps the chunks it had when the index cannot be built
IndexFailure_keeping_chunks(s, kind, msg) ==
    [ s |-> [ s EXCEPT !.error = AppendError(@, << msg >>) ], index |-> kind ]

\* "state['relevant_chunks'] = []" with the message joined to the error text
IndexFailure(s, kind, msg) ==
    [ s |-> [ s EXCEPT !.relevant_chunks = << >>,
                       !.error = AppendError(@, << msg >>) ],
      index |-> kind ]

\* the states the node can return, each with the branch that returned it
embed_index_and_extract(s, w) ==
    IF ~w.available.index
    THEN { IndexFailure(s, "unavailable",
                        "Required components for embedding/indexing are not available.") }
    ELSE IF DOMAIN s.relevant_contexts = {}
    THEN { IndexFailure(s, "no_contexts",
                        "No relevant contexts found for embedding and indexing.") }
    ELSE IF Documents(s.relevant_contexts, UrlOrder) = << >>
    THEN { IndexFailure(s, "no_documents",
                        "No documents created from relevant contexts for embedding.") }
    ELSE { IF reply = "index_error"
           THEN IndexFailure(s, "index_error",
                             "An error occurred during embedding and indexing with FAISS")
           ELSE IF s.new_query = "none"
           THEN IndexFailure(s, "no_query", "No retrieval query found for chunk retrieval.")
           ELSE IF reply = "retrieval_error"
           THEN IndexFailure(s, "retrieval_error", "Error during FAISS similarity search")
           ELSE [ s |-> [ s EXCEPT !.relevant_chunks =
                                      TopK(Documents(s.relevant_contexts, UrlOrder), N_CHUNKS) ],
                  index |-> "ok" ]
           : reply \in w.index }

\* graph.py: add_edge("embed_index_and_extract", "AI_evaluate")
EmbedIndexAndExtract(w) ==
    /\ pc = "embed_index_and_extract"
    /\ \E n \in embed_index_and_extract(state, w) :
          /\ state' = n.s
          /\ obs' = InRound(obs, [ NoObs EXCEPT !.index = n.index ])
    /\ pc' = "AI_evaluate"
    /\ last_node' = "embed_index_and_extract"

(***************************************************************************)
(* Judge: AI_evaluate                                                      *)
(***************************************************************************)
\* what the Judge's LLM call and the parsing of its reply come to: a
\* validated EvaluationResponse, or the exception raised on the way
AllJudgeReplies ==
    { [kind |-> "sufficient", follow_up_queries |-> << >>, msg |-> "none"],
      [kind |-> "insufficient", follow_up_queries |-> << "fq1" >>, msg |-> "none"],
      [kind |-> "insufficient", follow_up_queries |-> << >>, msg |-> "none"],
      [kind |-> "raised", follow_up_queries |-> << >>, msg |-> "Request timed out."],
      [kind |-> "raised", follow_up_queries |-> << >>,
       msg |-> "JSON block not found in response."],
      [kind |-> "raised", follow_up_queries |-> << >>,
       msg |-> "validation error for EvaluationResponse"] }

\* a Judge that fails closed: an exception asks for another round
JudgeVerdict_fail_closed(s, reply) ==
    IF reply.kind = "sufficient"
    THEN [ s EXCEPT !.proceed = TRUE, !.suggested_follow_up_queries = << >> ]
    ELSE IF reply.kind = "insufficient"
    THEN [ s EXCEPT !.proceed = FALSE,
                    !.suggested_follow_up_queries = reply.follow_up_queries ]
    ELSE [ s EXCEPT !.proceed = FALSE, !.suggested_follow_up_queries = << >> ]

\* proceed and the follow-up queries after the reply has been handled
JudgeVerdict(s, reply) ==
    IF reply.kind = "sufficient"
    THEN [ s EXCEPT !.proceed = TRUE, !.suggested_follow_up_queries = << >> ]
    ELSE IF reply.kind = "insufficient"
    THEN [ s EXCEPT !.proceed = FALSE,
                    !.suggested_follow_up_queries = reply.follow_up_queries ]
    ELSE [ s EXCEPT !.proceed = TRUE, !.suggested_follow_up_queries = << >> ]

\* a Judge without the final check
FinalIterationCap_absent(s) == s

\* "Final check for iteration cap"
FinalIterationCap(s) ==
    IF ~s.proceed /\ s.search_iteration_count >= MAX_AI_ITERATIONS
    THEN [ s EXCEPT !.proceed = TRUE, !.suggested_follow_up_queries = << >> ]
    ELSE s

\* an empty-chunks branch that always goes on to the report
NoChunks_proceeding(s) ==
    [ s EXCEPT !.proceed = TRUE,
               !.error = << "No relevant chunks found" >> ]

\* the branch for empty relevant_chunks
NoChunks(s) ==
    [ s EXCEPT !.proceed = ~(s.search_iteration_count < MAX_AI_ITERATIONS),
               !.suggested_follow_up_queries =
                   IF s.search_iteration_count < MAX_AI_ITERATIONS THEN << >> ELSE @,
               !.error = << "No relevant chunks found" >> ]

\* the function after the counter increment and "proceed = True"
JudgeOutcomes(s, w) ==
    IF ~w.available.llm
    THEN { [ s |-> [ s EXCEPT !.error = << "LLM not initialized. Skipping AI evaluation." >> ],
             judge |-> "no_llm", msg |-> "none" ] }
    ELSE IF s.relevant_chunks = << >>
    THEN { [ s |-> NoChunks(s), judge |-> "no_chunks", msg |-> "none" ] }
    ELSE { [ s |-> LET v == FinalIterationCap(JudgeVerdict(s, reply))
                   IN  [ v EXCEPT !.error = IF reply.kind = "raised"
                                            THEN AppendError(@, << reply.msg >>)
                                            ELSE @ ],
             judge |-> reply.kind, msg |-> reply.msg ]
           : reply \in w.judge }

AI_evaluate(s, w) ==
    JudgeOutcomes([ s EXCEPT !.search_iteration_count = @ + 1, !.proceed = TRUE ], w)

\* conditions.py route_ai_evaluate: on to the report when the Judge said
\* proceed or the iteration cap is used up, else another search round
route_ai_evaluate(s) ==
    IF s.proceed \/ s.search_iteration_count >= MAX_AI_ITERATIONS
    THEN "choose_report_type"
    ELSE "evaluate_search_results"

\* AI_evaluate with its loop-back edge drawn to create_queries
AIEvaluate_back_to_queries(w) ==
    /\ pc = "AI_evaluate"
    /\ \E n \in AI_evaluate(state, w) :
          /\ state' = n.s
          /\ obs' = InRound(obs, [ NoObs EXCEPT !.judge = n.judge, !.judge_msg = n.msg ])
          /\ pc' = IF route_ai_evaluate(n.s) = "evaluate_search_results"
                   THEN "create_queries" ELSE route_ai_evaluate(n.s)
    /\ last_node' = "AI_evaluate"

AIEvaluate(w) ==
    /\ pc = "AI_evaluate"
    /\ \E n \in AI_evaluate(state, w) :
          /\ state' = n.s
          /\ obs' = InRound(obs, [ NoObs EXCEPT !.judge = n.judge, !.judge_msg = n.msg ])
          /\ pc' = route_ai_evaluate(n.s)
    /\ last_node' = "AI_evaluate"

(***************************************************************************)
(* ChooseReportType: choose_report_type                                    *)
(***************************************************************************)
\* what the user does at the prompt, which allows 5 answers: picks a type
\* or gives 5 invalid answers
AllReportPromptAnswers == { "concise", "detailed", "invalid" }

\* a choose_report_type that asks whatever the flags are
choose_report_type_asking(s, w) ==
    { [ s |-> [ s EXCEPT !.report_type = IF a = "concise" THEN "concise" ELSE "detailed" ],
        prompted |-> TRUE, answer |-> a, prompts |-> IF a = "invalid" THEN 5 ELSE 1 ]
      : a \in w.report_prompt }

\* a choose_report_type that stores whatever it is given
choose_report_type_trusting(s, w) ==
    IF s.non_interactive
    THEN { [ s |-> [ s EXCEPT !.report_type =
                       IF s.report_type_choice # "none" THEN s.report_type_choice
                       ELSE IF s.auto_report_type # "none" THEN s.auto_report_type
                       ELSE "detailed" ],
             prompted |-> FALSE, answer |-> "none", prompts |-> 0 ] }
    ELSE { [ s |-> [ s EXCEPT !.report_type = a ],
             prompted |-> TRUE, answer |-> a, prompts |-> IF a = "invalid" THEN 5 ELSE 1 ]
           : a \in w.report_prompt }

\* the states the node can return, with the answer typed at the prompt and
\* the number of input() calls: a valid answer is the first one typed, and
\* "invalid" stands for five invalid answers, after which the loop is left
choose_report_type(s, w) ==
    IF s.non_interactive
    THEN { [ s |-> [ s EXCEPT !.report_type =
                       IF s.report_type_choice # "none"
                       THEN IF s.report_type_choice \in { "concise", "c" }
                            THEN "concise" ELSE "detailed"
                       ELSE IF s.auto_report_type # "none"
                       THEN IF s.auto_report_type \in { "concise", "detailed" }
                            THEN s.auto_report_type ELSE "detailed"
                       ELSE "detailed" ],
             prompted |-> FALSE, answer |-> "none", prompts |-> 0 ] }
    ELSE { [ s |-> [ s EXCEPT !.report_type = IF a = "concise" THEN "concise" ELSE "detailed" ],
             prompted |-> TRUE, answer |-> a, prompts |-> IF a = "invalid" THEN 5 ELSE 1 ]
           : a \in w.report_prompt }

\* graph.py: add_edge("choose_report_type", "write_report")
ChooseReportType(w) ==
    /\ pc = "choose_report_type"
    /\ \E n \in choose_report_type(state, w) :
          /\ state' = n.s
          /\ obs' = [ NoObs EXCEPT !.prompted = n.prompted,
                                    !.report_answer = n.answer,
                                    !.prompts = n.prompts ]
    /\ pc' = "write_report"
    /\ last_node' = "choose_report_type"

(***************************************************************************)
(* Synthesize: write_report                                                *)
(***************************************************************************)
\* max_words and max_sections of the report type
max_words(report_type) == IF report_type = "concise" THEN 1200 ELSE 3000
max_sections(report_type) == IF report_type = "concise" THEN 4 ELSE 8

\* the fallback outline: the words of each title and the target_words.
\* _call_llm returns what llm_call_async returns, a str or None, neither of
\* which has a .content, so the outline is never the LLM's
FallbackOutline(report_type) ==
    IF report_type = "concise"
    THEN << [title_words |-> 2, target_words |-> 200],
            [title_words |-> 2, target_words |-> 700],
            [title_words |-> 1, target_words |-> 300] >>
    ELSE << [title_words |-> 1, target_words |-> 400],
            [title_words |-> 2, target_words |-> 1600],
            [title_words |-> 2, target_words |-> 800],
            [title_words |-> 3, target_words |-> 400] >>

Max(a, b) == IF a >= b THEN a ELSE b

\* tw = max(50, min(tw, max_words // 2)) or max(100, min(tw, max_words // 3))
ClampTarget(report_type, tw) ==
    IF report_type = "concise"
    THEN Max(50, Min(tw, max_words(report_type) \div 2))
    ELSE Max(100, Min(tw, max_words(report_type) \div 3))

RECURSIVE SumTargets(_)
SumTargets(sections) ==
    IF sections = << >> THEN 0
    ELSE Head(sections).target_words + SumTargets(Tail(sections))

RECURSIVE Sanitize(_, _, _)
\* the loop "for s in sections[:max_sections]" with its break at 90% of
\* max_words
Sanitize(report_type, sections, total_target) ==
    IF sections = << >> THEN << >>
    ELSE LET tw == ClampTarget(report_type, Head(sections).target_words)
         IN  << [ Head(sections) EXCEPT !.target_words = tw ] >>
             \o (IF 10 * (total_target + tw) >= 9 * max_words(report_type)
                 THEN << >>
                 ELSE Sanitize(report_type, Tail(sections), total_target + tw))

\* "Adjust if total exceeds limit"
Rescale(report_type, sections) ==
    IF SumTargets(sections) > max_words(report_type)
    THEN [ i \in 1..Len(sections) |->
             [ sections[i] EXCEPT !.target_words =
                 Max(50, (@ * max_words(report_type)) \div SumTargets(sections)) ] ]
    ELSE sections

\* "Clamp and sanitize sections based on report type" and "Adjust if total
\* exceeds limit", for the outline in sections
SanitizeOutline(report_type, sections) ==
    Rescale(report_type,
            Sanitize(report_type,
                     SubSeq(sections, 1, Min(Len(sections), max_sections(report_type))),
                     0))

sanitized_sections(report_type) ==
    SanitizeOutline(report_type, FallbackOutline(report_type))

\* words of "[No content generated for this section due to LLM failure.]"
PlaceholderWords == 10

\* _word_count of "# title\n\n" + body, the body being the LLM's text or the
\* placeholder when the call returned None (words < 0)
SectionWords(section, words) ==
    1 + section.title_words + (IF words < 0 THEN PlaceholderWords ELSE words)

\* a section loop that drops the sections whose call returned None
section_texts_dropping_failures(sections, replies) ==
    LET kept == { i \in 1..Len(sections) : replies[i] >= 0 }
        nth(k) == CHOOSE i \in kept : Cardinality({ j \in kept : j < i }) = k - 1
    IN  [ k \in 1..Cardinality(kept) |->
            [ title |-> nth(k), body |-> "text",
              words |-> SectionWords(sections[nth(k)], replies[nth(k)]) ] ]

\* section_texts after "for sec in sanitized_sections": one entry per section,
\* "# {sec_title}" (the title is known by its place in the outline) over the
\* LLM's text or the placeholder
section_texts(sections, replies) ==
    [ i \in 1..Len(sections) |->
        [ title |-> i,
          body |-> IF replies[i] < 0 THEN "placeholder" ELSE "text",
          words |-> SectionWords(sections[i], replies[i]) ] ]

RECURSIVE actual_words(_, _)
actual_words(sections, replies) ==
    IF sections = << >> THEN 0
    ELSE SectionWords(Head(sections), Head(replies))
         + actual_words(Tail(sections), Tail(replies))

\* max(int(expected_words * min_threshold), 600 or 800)
min_expected_words(report_type, expected_words) ==
    IF report_type = "concise"
    THEN Max((expected_words * 6) \div 10, 600)
    ELSE Max((expected_words * 8) \div 10, 800)

\* the condition of the expansion loop on its first test
NeedsExpansion(report_type, expected_words, actual) ==
    /\ actual < min_expected_words(report_type, expected_words)
    /\ 10 * actual < 9 * max_words(report_type)

\* a write_report without the final truncation
Truncate_absent(report_type, words) == words

\* "Final word count check and truncation if necessary"
Truncate(report_type, words) == Min(words, max_words(report_type))

\* sinks whose failures are not recorded
SinkErrors_silent(sinks) == << >>

\* the errors of the two report sinks
SinkErrors(sinks) ==
    (IF sinks.text_ok THEN << >> ELSE << "Failed to save report to text file" >>)
    \o (IF sinks.pdf_ok THEN << >> ELSE << "Error generating PDF" >>)

\* what the section calls return, one per section of the longest outline:
\* the words of the text, or -1 for None
AllSectionReplies ==
    { << -1, -1, -1, -1 >>, << 300, 300, 300, 300 >>, << 700, 700, 700, 700 >>,
      << 2000, 2000, 2000, 2000 >>, << 700, -1, 700, 700 >> }

AllSinkReplies == [ text_ok : BOOLEAN, pdf_ok : BOOLEAN ]

\* "Clear intermediate data"
ClearIntermediate(s) ==
    [ s EXCEPT !.data = << >>,
               !.relevant_contexts = EmptyDict,
               !.relevant_chunks = << >>,
               !.search_queries = << >>,
               !.suggested_follow_up_queries = << >>,
               !.iteration_count = 0 ]

\* _word_count of a research topic: the queries of the model are one word
TopicWords(research_topic) == 1

\* _word_count of "Could not generate a report. No relevant information was
\* found for the topic: '{research_topic}'."
NoEvidenceWords(research_topic) == 13 + TopicWords(research_topic)

\* the states write_report returns, or the exception it ends with: the
\* expansion loop calls _call_llm(messages, max_tokens=...), and _call_llm
\* takes no max_tokens
write_report(s, w) ==
    LET report_type == s.report_type
        sections == sanitized_sections(report_type)
        expected_words == SumTargets(sections)
    IN
    IF s.relevant_chunks = << >>
    THEN { [ s |-> [ s EXCEPT
                       !.report = [ kind |-> "no_evidence",
                                    words |-> NoEvidenceWords(s.new_query) ],
                       !.error = AppendError(@,
                                   << "Could not generate a report. No relevant information was found" >>
                                   \o SinkErrors(sinks)) ],
             generated |-> NoEvidenceWords(s.new_query),
             texts |-> << >>, replies |-> << >>,
             sinks_called |-> { "text", "pdf" },
             sinks_failed |-> (IF sinks.text_ok THEN {} ELSE { "text" })
                              \cup (IF sinks.pdf_ok THEN {} ELSE { "pdf" }),
             raised |-> "none" ]
           : sinks \in w.sinks }
    ELSE UNION {
           LET called == SubSeq(replies, 1, Len(sections))
               texts == section_texts(sections, called)
               actual == actual_words(sections, called)
           IN  IF NeedsExpansion(report_type, expected_words, actual)
               THEN { [ s |-> s, generated |-> actual, texts |-> texts,
                        replies |-> called, sinks_called |-> {}, sinks_failed |-> {},
                        raised |-> "TypeError" ] }
               ELSE { [ s |-> ClearIntermediate(
                                [ s EXCEPT
                                    !.report = [ kind |-> "synthesized",
                                                 words |-> Truncate(report_type, actual) ],
                                    !.error = AppendError(@, SinkErrors(sinks)) ]),
                        generated |-> actual,
                        texts |-> texts, replies |-> called,
                        sinks_called |-> { "text", "pdf" },
                        sinks_failed |-> (IF sinks.text_ok THEN {} ELSE { "text" })
                                         \cup (IF sinks.pdf_ok THEN {} ELSE { "pdf" }),
                        raised |-> "none" ]
                      : sinks \in w.sinks }
           : replies \in w.sections }

\* graph.py: add_edge("write_report", END); an exception that leaves the
\* node ends astream, and run_workflow logs it
WriteReport(w) ==
    /\ pc = "write_report"
    /\ \E n \in write_report(state, w) :
          /\ state' = n.s
          /\ obs' = [ NoObs EXCEPT !.raised = n.raised,
                                    !.generated_words = n.generated,
                                    !.section_texts = n.texts,
                                    !.sinks_called = n.sinks_called,
                                    !.sinks_failed = n.sinks_failed,
                                    !.section_replies = n.replies ]
          /\ pc' = IF n.raised = "none" THEN "END" ELSE "aborted"
    /\ last_node' = "write_report"

Next(w) ==
    \/ CreateQueries(w)
    \/ UserApproval(w)
    \/ EvaluateSearchResults(w)
    \/ ExtractContent(w)
    \/ EmbedIndexAndExtract(w)
    \/ AIEvaluate(w)
    \/ ChooseReportType(w)
    \/ WriteReport(w)

\* every reply of every collaborator, in a deployment where the LLM, the
\* searcher and the index components were imported
AllReplies ==
    [ available |-> [ llm |-> TRUE, searcher |-> TRUE, index |-> TRUE ],
      query_gen |-> AllQueryGenReplies,
      approval_prompt |-> AllPromptAnswers,
      search |-> [ q \in { "sq1", "sq2" } |-> AllSearchReplies(q) ],
      relevance |-> AllRelevanceReplies,
      scrape |-> AllScrapeReplies,
      pdf |-> AllPdfReplies,
      index |-> AllIndexReplies,
      judge |-> AllJudgeReplies,
      report_prompt |-> AllReportPromptAnswers,
      sections |-> AllSectionReplies,
      sinks |-> AllSinkReplies ]

\* a world for runs under every automation profile: the search finds one
\* page, and the LLM calls succeed or fail
LeanWorld ==
    [ AllReplies EXCEPT
        !.query_gen = { r \in @ : r.query # << "sq1", "sq2" >> },
        !.search = [ q \in { "sq1", "sq2" } |->
                       { [raised |-> FALSE,
                          results |-> << [url |-> NormalUrl, snippet |-> "s1"] >>] } ],
        !.relevance = { "yes" },
        !.scrape = { r \in @ : r.kind = "ok" /\ r.len = 500 },
        !.pdf = { r \in @ : r.kind = "ok" /\ r.len = 500 },
        !.index = { "ok" },
        !.judge = { r \in @ : r.msg \in { "none", "Request timed out." }
                              /\ (r.kind = "insufficient" => r.follow_up_queries # << >>) },
        !.sections = { << -1, -1, -1, -1 >>, << 700, 700, 700, 700 >>,
                       << 2000, 2000, 2000, 2000 >>, << 700, -1, 700, 700 >> },
        !.sinks = { r \in @ : r.text_ok = r.pdf_ok } ]

Spec == Init /\ [][Next(LeanWorld)]_vars

\* the scheduler runs the next node whenever there is one
FairSpec == Spec /\ WF_vars(Next(LeanWorld))

\* the search results in the order the engine ranks them
Ranked(results) ==
    \A i, j \in 1..Len(results) :
        i < j => results[i].snippet \o "<" \o results[j].snippet
                 \in { "s1<s2", "s1<s3", "s2<s3", "s1<s4", "s3<s4" }

\* a world for the rounds of a fully automated run: searches that return the
\* same page under two snippets and a PDF, relevance verdicts of both kinds,
\* a PDF loader that times out, and a Judge that asks for more
RoundsWorld ==
    [ AllReplies EXCEPT
        !.query_gen = { r \in @ : r.ok },
        !.search = [ q \in { "sq1", "sq2" } |->
                       { r \in AllSearchReplies(q) : Ranked(r.results) } ],
        !.relevance = { "yes", "no", "timeout", "error" },
        !.scrape = { r \in @ : r.kind = "timeout" \/ (r.kind = "ok" /\ r.len \in { 0, 500, 20000 }) },
        !.pdf = { r \in @ : r.kind = "timeout" \/ (r.kind = "ok" /\ r.len = 500) },
        !.index = { "ok", "index_error", "retrieval_error" },
        !.judge = { r \in @ : r.msg \in { "none", "Request timed out." }
                              /\ (r.kind = "insufficient" => r.follow_up_queries # << >>) },
        !.sections = { << 700, 700, 700, 700 >> },
        !.sinks = { r \in @ : r.text_ok /\ r.pdf_ok } ]

InitRounds ==
    /\ pc = "create_queries"
    /\ state \in { InitialState(p) : p \in { q \in Profiles : q.name = "full" } }
    /\ last_node = "START"
    /\ obs = NoObs

SpecRounds == InitRounds /\ [][Next(RoundsWorld)]_vars

(***************************************************************************)
(* Properties                                                              *)
(***************************************************************************)
UrlsOf(items) == { items[i].url : i \in 1..Len(items) }

\* the search result with a given snippet hash
PairOf(h) == CHOOSE r \in SearchUniverse : hash_snippet(r.url, r.snippet) = h

\* C1: after every execution of evaluate_search_results, in any round, no
\* two entries of data have the same URL
C1_NoDuplicateUrls ==
    last_node = "evaluate_search_results" =>
        \A i, j \in 1..Len(state.data) :
            i # j => state.data[i].url # state.data[j].url

\* C1 witness: in a refinement round the stage accepted two results with
\* the same URL
C1_Witness ==
    /\ last_node = "evaluate_search_results"
    /\ state.search_iteration_count >= 1
    /\ \E a, b \in obs.accepted : a # b /\ a.url = b.url

\* C2: failed_urls only grows, and extract_content starts no extraction
\* task for a URL that was in failed_urls when the stage began
C2_FailedNeverRetried ==
    [][ /\ state.failed_urls \subseteq state'.failed_urls
        /\ (pc = "extract_content" => obs'.attempted \cap state.failed_urls = {}) ]_vars

\* C2 witness: a later Fetch has run, and a URL of data that had failed
\* before, and is not blocked, was not attempted by it
C2_Witness ==
    /\ last_node = "extract_content"
    /\ state.search_iteration_count >= 1
    /\ \E u \in state.failed_urls :
          /\ u \in UrlsOf(state.data)
          /\ ~IsBlockedDomain(u)
          /\ u \notin obs.attempted
          /\ obs.attempted # {}

\* C3: search_iteration_count never exceeds MAX_AI_ITERATIONS, and when
\* AI_evaluate returns with the counter at the cap proceed is true
C3_RefinementCap ==
    /\ state.search_iteration_count <= MAX_AI_ITERATIONS
    /\ (last_node = "AI_evaluate" /\ state.search_iteration_count >= MAX_AI_ITERATIONS
          => state.proceed /\ pc = "choose_report_type")

\* C3 witness: the Judge's LLM said insufficient at the cap
C3_Witness ==
    /\ last_node = "AI_evaluate"
    /\ state.search_iteration_count = MAX_AI_ITERATIONS
    /\ obs.judge = "insufficient"

C5_ApprovalLoopCapped == obs.loopbacks <= MAX_USER_QUERY_LOOPS

\* C6: every run reaches END, with a synthesized report or the no-evidence
\* message in report
C6_ReachesTerminal ==
    <>(pc = "END" /\ state.report.kind \in { "synthesized", "no_evidence" })

\* C7: a message that is in error stays in error
C7_ErrorsAccumulate ==
    [][ \A m \in Range(state.error) : m \in Range(state'.error) ]_vars

\* C8: no node function ends with an exception
C8_NoStageRaises == ~(pc = "aborted" /\ obs.raised # "GraphRecursionError")

\* C9: when the Judge's LLM call or the parsing of its reply raises,
\* AI_evaluate returns proceed = true and no follow-up queries, error holds
\* the message of the exception, and the next node is choose_report_type
C9_JudgeFailsOpen ==
    last_node = "AI_evaluate" /\ obs.judge = "raised" =>
        /\ state.proceed
        /\ state.suggested_follow_up_queries = << >>
        /\ obs.judge_msg \in Range(state.error)
        /\ pc = "choose_report_type"

\* C9 witness: the Judge raised before the iteration cap
C9_Witness ==
    /\ last_node = "AI_evaluate"
    /\ obs.judge = "raised"
    /\ state.search_iteration_count < MAX_AI_ITERATIONS

\* C10: when the queries are accepted after two rejections,
\* approval_iteration_count is 3; and create_queries after a rejection works
\* from the query the user supplied last
C10_ApprovalLoopsCounted ==
    /\ (last_node = "user_approval" /\ obs.decision = "yes"
        /\ obs.rejections = 2 /\ obs.loopbacks = 2
          => state.approval_iteration_count = 3)
    /\ (last_node = "create_queries" /\ obs.user_query # "none"
          => obs.query_used = obs.user_query)

\* the hashes of the results with a blocked URL
BlockedHashes ==
    { hash_snippet(r.url, r.snippet) : r \in { x \in SearchUniverse : x.url = BlockedUrl } }

\* C11: a URL of a blocked domain is never sent to the relevance call, never
\* in data, never attempted by Fetch, never a key of relevant_contexts and
\* never in failed_urls
C11_BlockedFilteredNotFailed ==
    /\ obs.relevance_calls \cap BlockedHashes = {}
    /\ BlockedUrl \notin UrlsOf(state.data)
    /\ BlockedUrl \notin obs.attempted
    /\ BlockedUrl \notin DOMAIN state.relevant_contexts
    /\ BlockedUrl \notin state.failed_urls
    /\ BlockedUrl \notin state.visited_urls

\* C11 witness: a search returned the blocked URL next to a page that was
\* accepted
C11_Witness ==
    /\ last_node = "evaluate_search_results"
    /\ BlockedUrl \in obs.filtered
    /\ obs.accepted # {}

\* C12: no URL is both in failed_urls and a key of relevant_contexts
C12_FailedDisjointFromContexts ==
    state.failed_urls \cap DOMAIN state.relevant_contexts = {}

\* C12 witness: a Fetch of a later round ended with content for one URL
\* while another URL of data had failed in an earlier round
C12_Witness ==
    /\ last_node = "extract_content"
    /\ state.search_iteration_count >= 1
    /\ DOMAIN state.relevant_contexts # {}
    /\ \E u \in state.failed_urls : u \in UrlsOf(state.data) /\ u \notin obs.attempted

MaxTextLen == 6
MaxCap == 2

Whitespace == { " ", "\n" }
Letters == { "a", "b" }
Texts == UNION { [ 1..n -> Letters \cup Whitespace ] : n \in 0..MaxTextLen }

RECURSIVE SplitFrom(_, _, _)
\* str.split() with no separator: runs of whitespace separate the words, and
\* leading and trailing whitespace gives no empty word
SplitFrom(text, word, words) ==
    IF text = << >>
    THEN IF word = << >> THEN words ELSE Append(words, word)
    ELSE IF Head(text) \in Whitespace
    THEN SplitFrom(Tail(text), << >>, IF word = << >> THEN words ELSE Append(words, word))
    ELSE SplitFrom(Tail(text), Append(word, Head(text)), words)

split(text) == SplitFrom(text, << >>, << >>)

RECURSIVE join(_, _)
\* sep.join(words)
join(sep, words) ==
    IF words = << >> THEN << >>
    ELSE IF Len(words) = 1 THEN words[1]
    ELSE words[1] \o sep \o join(sep, Tail(words))

\* def _word_count(text): return len(text.split())
word_count(text) == Len(split(text))

\* words[:n]
FirstWords(words, n) == SubSeq(words, 1, Min(n, Len(words)))

\* a truncation that keeps one word too many
FinalTruncation_one_more(final_report_content, cap) ==
    IF word_count(final_report_content) > cap
    THEN join(<< " " >>, FirstWords(split(final_report_content), cap + 1))
    ELSE final_report_content

\* if final_words > max_words: final_report_content = ' '.join(words[:max_words])
FinalTruncation(final_report_content, cap) ==
    IF word_count(final_report_content) > cap
    THEN join(<< " " >>, FirstWords(split(final_report_content), cap))
    ELSE final_report_content

\* a generated text of any shape and a word budget
InitText ==
    /\ pc = "final_check"
    /\ state \in [ final_report_content : Texts, max_words : 1..MaxCap ]
    /\ last_node = "sections"
    /\ obs = [ generated |-> state.final_report_content,
               stored |-> state.final_report_content ]

\* the final word count check of write_report
FinalCheck ==
    /\ pc = "final_check"
    /\ state' = [ state EXCEPT !.final_report_content = FinalTruncation(@, state.max_words) ]
    /\ obs' = [ obs EXCEPT !.stored = state'.final_report_content ]
    /\ pc' = "stored"
    /\ last_node' = "final_check"

\* the same check applied to the stored report
CheckAgain ==
    /\ pc = "stored"
    /\ state' = [ state EXCEPT !.final_report_content = FinalTruncation(@, state.max_words) ]
    /\ UNCHANGED obs
    /\ pc' = "checked_again"
    /\ last_node' = "check_again"

NextText == FinalCheck \/ CheckAgain

SpecText == InitText /\ [][NextText]_vars

\* C15: a report of more than max_words words is stored as exactly its
\* first max_words words in their order, and truncating the stored report
\* again changes nothing
C15_TruncationKeepsFirstWords ==
    /\ (pc \in { "stored", "checked_again" } /\ word_count(obs.generated) > state.max_words) =>
          /\ split(obs.stored) = SubSeq(split(obs.generated), 1, state.max_words)
          /\ word_count(obs.stored) = state.max_words
    /\ pc \in { "stored", "checked_again" } => word_count(obs.stored) <= state.max_words
    /\ pc = "checked_again" => state.final_report_content = obs.stored

\* C15 witness: a text of three words in irregular whitespace was cut to two
\* and checked again
C15_Witness ==
    /\ pc = "checked_again"
    /\ state.max_words = 2
    /\ word_count(obs.generated) = 3
    /\ obs.generated # join(<< " " >>, split(obs.generated))
    /\ split(obs.generated)[1] # split(obs.generated)[2]
    /\ obs.stored # obs.generated

(***************************************************************************)
(* The call gate llm_call_async: one caller followed attempt by attempt,   *)
(* and the other callers of the process counted by where they are (their   *)
(* attempt number is left open: a failed attempt is retried or is the      *)
(* last).                                                                  *)
(***************************************************************************)
MAX_RETRIES == 5
MAX_CONCURRENT_CALLS == 10
MaxCallers == 11

\* a semaphore that lets every caller in
CanAcquire_always(value) == TRUE

\* asyncio.Semaphore.acquire returns at once only when a permit is left
CanAcquire(value) == value > 0

\* asyncio.Semaphore.release, called by __aexit__ however the block is left
Release(value) == value + 1

\* a retry loop that never ends
HasNextAttempt_always(attempt) == TRUE

\* "for attempt in range(MAX_RETRIES)" and "if attempt < MAX_RETRIES - 1"
HasNextAttempt(attempt) == attempt + 1 < MAX_RETRIES

InitGate ==
    /\ pc = "idle"
    /\ state = [ semaphore |-> MAX_CONCURRENT_CALLS,
                 attempt |-> 0,
                 result |-> "unset",
                 others |-> [ idle |-> MaxCallers - 1, acquire |-> 0,
                              api_call |-> 0, sleep |-> 0 ] ]
    /\ last_node = "none"
    /\ obs = [ outcomes |-> << >>,     \* how each attempt of the caller ended
               api_calls |-> 0,        \* generate_content calls the caller made
               holding |-> FALSE ]     \* the caller is inside "async with semaphore"

\* llm_call_async up to the retry loop: None without an API key or without
\* messages
GateCall ==
    /\ pc = "idle"
    /\ \E ready \in BOOLEAN :
          IF ready
          THEN /\ pc' = "acquire"
               /\ state' = [ state EXCEPT !.attempt = 0 ]
          ELSE /\ pc' = "returned"
               /\ state' = [ state EXCEPT !.result = "None" ]
    /\ UNCHANGED obs
    /\ last_node' = "GateCall"

\* "async with semaphore:" entered, generate_content awaited
GateAcquire ==
    /\ pc = "acquire"
    /\ CanAcquire(state.semaphore)
    /\ state' = [ state EXCEPT !.semaphore = @ - 1 ]
    /\ obs' = [ obs EXCEPT !.holding = TRUE, !.api_calls = @ + 1 ]
    /\ pc' = "api_call"
    /\ last_node' = "GateAcquire"

\* "return response.text"
GateSuccess ==
    /\ pc = "api_call"
    /\ state' = [ state EXCEPT !.semaphore = Release(@), !.result = "text" ]
    /\ obs' = [ obs EXCEPT !.holding = FALSE, !.outcomes = Append(@, "ok") ]
    /\ pc' = "returned"
    /\ last_node' = "GateSuccess"

\* "except RateLimitException as e: await asyncio.sleep(e.period)"
GateRateLimit ==
    /\ pc = "api_call"
    /\ state' = [ state EXCEPT !.semaphore = Release(@) ]
    /\ obs' = [ obs EXCEPT !.holding = FALSE, !.outcomes = Append(@, "rate_limit") ]
    /\ pc' = "sleep"
    /\ last_node' = "GateRateLimit"

\* "except Exception as e:": back off, or None after the last attempt
GateError ==
    /\ pc = "api_call"
    /\ obs' = [ obs EXCEPT !.holding = FALSE, !.outcomes = Append(@, "error") ]
    /\ IF HasNextAttempt(state.attempt)
       THEN /\ state' = [ state EXCEPT !.semaphore = Release(@) ]
            /\ pc' = "sleep"
       ELSE /\ state' = [ state EXCEPT !.semaphore = Release(@), !.result = "None" ]
            /\ pc' = "returned"
    /\ last_node' = "GateError"

\* the sleep is over: the next attempt, or the end of the loop and of the
\* function, which returns None
GateWake ==
    /\ pc = "sleep"
    /\ IF HasNextAttempt(state.attempt)
       THEN /\ state' = [ state EXCEPT !.attempt = @ + 1 ]
            /\ pc' = "acquire"
       ELSE /\ state' = [ state EXCEPT !.result = "None" ]
            /\ pc' = "returned"
    /\ UNCHANGED obs
    /\ last_node' = "GateWake"

\* another caller reaches "async with semaphore"
OthersCall ==
    /\ state.others.idle > 0
    /\ state' = [ state EXCEPT !.others.idle = @ - 1, !.others.acquire = @ + 1 ]
    /\ last_node' = "OthersCall"
    /\ UNCHANGED << pc, obs >>

OthersAcquire ==
    /\ state.others.acquire > 0
    /\ CanAcquire(state.semaphore)
    /\ state' = [ state EXCEPT !.semaphore = @ - 1,
                               !.others.acquire = @ - 1, !.others.api_call = @ + 1 ]
    /\ last_node' = "OthersAcquire"
    /\ UNCHANGED << pc, obs >>

\* another caller's attempt ends its call: a reply, or its last failure
OthersReturn ==
    /\ state.others.api_call > 0
    /\ state' = [ state EXCEPT !.semaphore = Release(@),
                               !.others.api_call = @ - 1, !.others.idle = @ + 1 ]
    /\ last_node' = "OthersReturn"
    /\ UNCHANGED << pc, obs >>

\* another caller's attempt fails and it sleeps
OthersFail ==
    /\ state.others.api_call > 0
    /\ state' = [ state EXCEPT !.semaphore = Release(@),
                               !.others.api_call = @ - 1, !.others.sleep = @ + 1 ]
    /\ last_node' = "OthersFail"
    /\ UNCHANGED << pc, obs >>

\* another caller wakes up for its next attempt, or falls out of the loop
OthersWake ==
    /\ state.others.sleep > 0
    /\ \E again \in BOOLEAN :
          state' = IF again
                   THEN [ state EXCEPT !.others.sleep = @ - 1, !.others.acquire = @ + 1 ]
                   ELSE [ state EXCEPT !.others.sleep = @ - 1, !.others.idle = @ + 1 ]
    /\ last_node' = "OthersWake"
    /\ UNCHANGED << pc, obs >>

NextGate ==
    \/ GateCall
    \/ GateAcquire
    \/ GateSuccess
    \/ GateRateLimit
    \/ GateError
    \/ GateWake
    \/ OthersCall
    \/ OthersAcquire
    \/ OthersReturn
    \/ OthersFail
    \/ OthersWake

SpecGate == InitGate /\ [][NextGate]_vars

\* the generate_content calls in flight
InFlight == state.others.api_call + (IF pc = "api_call" THEN 1 ELSE 0)

\* C16: at most MAX_CONCURRENT_CALLS API calls are in flight; every permit
\* taken is given back when the attempt ends, however it ends, so the
\* permits out are exactly the calls in flight and a sleeping caller holds
\* none
C16_GateBoundsInFlight ==
    /\ InFlight <= MAX_CONCURRENT_CALLS
    /\ state.semaphore >= 0
    /\ state.semaphore = MAX_CONCURRENT_CALLS - InFlight
    /\ obs.holding <=> pc = "api_call"

\* C16 witness: ten calls are in flight, and the caller, whose earlier
\* attempt failed, waits for a permit
C16_Witness ==
    /\ InFlight = MAX_CONCURRENT_CALLS
    /\ state.semaphore = 0
    /\ pc = "acquire"
    /\ obs.outcomes # << >>

\* C17: one call makes at most MAX_RETRIES API calls, none after a
\* successful one, whose value it returns; after MAX_RETRIES failures of
\* either kind it returns None
C17_BoundedAttempts ==
    /\ obs.api_calls <= MAX_RETRIES
    /\ state.attempt < MAX_RETRIES
    /\ obs.api_calls = Len(obs.outcomes) + (IF pc = "api_call" THEN 1 ELSE 0)
    /\ \A i \in 1..Len(obs.outcomes) :
          obs.outcomes[i] = "ok" =>
              /\ i = Len(obs.outcomes)
              /\ pc = "returned"
              /\ state.result = "text"
    /\ pc = "returned" <=> state.result \in { "text", "None" }
    /\ state.result = "text" =>
          /\ obs.outcomes # << >>
          /\ obs.outcomes[Len(obs.outcomes)] = "ok"
    /\ state.result = "None" => Len(obs.outcomes) \in { 0, MAX_RETRIES }
    /\ (pc \in { "acquire", "api_call", "sleep" } /\ Len(obs.outcomes) = MAX_RETRIES) =>
          (pc = "sleep" /\ ~HasNextAttempt(state.attempt))

\* C17 witness: five failed attempts, errors and rate limits mixed, the
\* last one a rate limit, and None returned
C17_Witness ==
    /\ pc = "returned"
    /\ state.result = "None"
    /\ Len(obs.outcomes) = MAX_RETRIES
    /\ obs.outcomes[MAX_RETRIES] = "rate_limit"
    /\ \E i \in 1..MAX_RETRIES : obs.outcomes[i] = "error"

\* the flags AutomationConfig.full_automation puts in the state
FullFlags(s) ==
    /\ s.non_interactive
    /\ s.approval_choice = "yes"
    /\ s.report_type_choice = "detailed"

\* the flags AutomationConfig.query_automation_only puts in the state
QueryOnlyFlags(s) ==
    /\ s.auto_approve
    /\ s.approval_choice = "yes"
    /\ ~s.non_interactive

\* C18: with the flags of the full profile no node prompts; Approve sets
\* proceed and changes nothing else but the error and its counter, and
\* ChooseReportType selects "detailed"
C18_FullProfileNeverPrompts ==
    /\ [](FullFlags(state) => ~obs.prompted)
    /\ [][ FullFlags(state) =>
            /\ pc = "user_approval" =>
                  /\ state' = [ state EXCEPT !.proceed = TRUE,
                                             !.error = << >>,
                                             !.approval_iteration_count = @ + 1 ]
                  /\ obs'.decision = "yes"
                  /\ obs'.rejections = 0
            /\ pc = "choose_report_type" =>
                  state' = [ state EXCEPT !.report_type = "detailed" ] ]_vars

\* C18 witness: a run with the full profile ended after one approval, with a
\* detailed report
C18_Witness ==
    /\ pc = "END"
    /\ FullFlags(state)
    /\ state.approval_iteration_count = 1
    /\ state.report_type = "detailed"
    /\ state.report.kind = "synthesized"

\* C19: with the flags of the query_only profile Approve accepts the
\* queries without prompting, and ChooseReportType asks
C19_QueryOnlyAutomatesApproval ==
    QueryOnlyFlags(state) =>
        /\ last_node = "user_approval" => (~obs.prompted /\ state.proceed)
        /\ last_node = "choose_report_type" => obs.prompted

\* C20: a search round entered from the Judge with follow-up queries has
\* them as its search queries
C20_FollowUpsAreNextQueries ==
    ( /\ pc = "evaluate_search_results"
      /\ last_node = "AI_evaluate"
      /\ state.suggested_follow_up_queries # << >> )
    => state.search_queries = state.suggested_follow_up_queries

\* C21: after a Fetch, every attempted URL whose extraction failed or timed
\* out and whose search result has a snippet has that snippet as its content
\* and is not in failed_urls
C21_SnippetFallbackForAll ==
    last_node = "extract_content" =>
        \A u \in obs.extraction_failed :
            LET result == ResultOf(state.data, u)
            IN  result.snippet # "none" =>
                    /\ u \in DOMAIN state.relevant_contexts
                    /\ state.relevant_contexts[u] = Snippet(result)
                    /\ u \notin state.failed_urls

(***************************************************************************)
(* The fan-outs of SearchFilter and Fetch task by task: a stage creates    *)
(* its coroutines, awaits asyncio.gather, and merges what they returned.   *)
(* A task is pending until the event loop starts it, in flight while it    *)
(* awaits its collaborator, and done when it has returned.                 *)
(***************************************************************************)
MAX_CONCURRENT_SCRAPES == 4
MaxFanResults == 2
MaxFetchUrls == 5

FanQueries == << "sq1", "sq2" >>
FanUniverse == { [url |-> NormalUrl, snippet |-> "s1"], [url |-> PdfUrl, snippet |-> "s3"] }
FanHashes == { hash_snippet(r.url, r.snippet) : r \in FanUniverse }

\* what a search comes to: an exception, or a list that may repeat a result
FanSearchReplies ==
    { [raised |-> TRUE, results |-> << >>] }
    \cup { [raised |-> FALSE, results |-> rs] : rs \in SeqsUpTo(FanUniverse, MaxFanResults) }

\* the URLs of a Fetch: page i of data, each with a snippet
FetchUrl(i) == [url |-> i, snippet |-> "s1"]

FanState(stage) ==
    [ stage |-> stage,
      search_tasks |-> [ q \in 1..Len(FanQueries) |-> [ phase |-> "pending", raised |-> FALSE,
                                                         results |-> << >> ] ],
      set_index |-> 0,
      result_set |-> << >>,
      tasks |-> << >>,
      evaluated_results |-> << >>,
      visited_urls |-> {},
      snippet_cache |-> EmptyDict,
      errors |-> << >>,
      fetch_tasks |-> << >>,
      relevant_contexts |-> EmptyDict,
      failed_urls |-> {} ]

FanObs ==
    [ calls |-> [ h \in FanHashes |-> 0 ],     \* relevance calls made for a pair
      writes |-> [ h \in FanHashes |-> 0 ],    \* cache entries written for a pair
      shared_write |-> "none",                 \* collection a task wrote with a sibling in flight
      task_returned |-> {},                    \* the results tasks returned
      task_failed |-> FALSE ]                  \* a task ended in a failure or a timeout

InitFanOut ==
    /\ pc = "gather"
    /\ \/ state = FanState("SearchFilter")
       \/ \E n \in 1..MaxFetchUrls :
             state = [ FanState("Fetch") EXCEPT
                         !.fetch_tasks = [ i \in 1..n |-> [ phase |-> "pending",
                                                            content |-> NoContent ] ] ]
    /\ last_node = "none"
    /\ obs = FanObs

\* a gather that is over when its first task is
GatherDone_first(tasks) ==
    \E i \in 1..Len(tasks) : tasks[i].phase = "done"

\* "await asyncio.gather(*tasks)" returns when every task has finished
GatherDone(tasks) ==
    \A i \in 1..Len(tasks) : tasks[i].phase = "done"

\* the tasks awaiting their collaborator
InFlightTasks(tasks) == { i \in 1..Len(tasks) : tasks[i].phase = "in_flight" }

\* search_engine.search(q) is started
SearchStart ==
    /\ pc = "gather"
    /\ state.stage = "SearchFilter"
    /\ state.set_index = 0
    /\ \E q \in 1..Len(FanQueries) :
          /\ state.search_tasks[q].phase = "pending"
          /\ state' = [ state EXCEPT !.search_tasks[q].phase = "in_flight" ]
    /\ UNCHANGED << pc, obs >>
    /\ last_node' = "SearchStart"

\* a search returns or raises; gather(return_exceptions=True) keeps either
SearchReply ==
    /\ pc = "gather"
    /\ state.stage = "SearchFilter"
    /\ \E q \in 1..Len(FanQueries), reply \in FanSearchReplies :
          /\ state.search_tasks[q].phase = "in_flight"
          /\ state' = [ state EXCEPT !.search_tasks[q] =
                          [ phase |-> "done", raised |-> reply.raised,
                            results |-> reply.results ] ]
          /\ obs' = [ obs EXCEPT !.task_failed = @ \/ reply.raised ]
    /\ UNCHANGED pc
    /\ last_node' = "SearchReply"

\* "for i, result_set in enumerate(search_results_list)": the next result
\* set, its errors, or its evaluate_snippet coroutines
NextResultSet ==
    /\ state.stage = "SearchFilter"
    /\ \/ pc = "gather" /\ state.set_index = 0 /\ GatherDone(state.search_tasks)
       \/ pc = "loop"
    /\ state.set_index < Len(FanQueries)
    /\ LET i == state.set_index + 1
           reply == state.search_tasks[i]
       IN  IF reply.raised
           THEN /\ state' = [ state EXCEPT
                                !.set_index = i,
                                !.errors = @ \o << "Search failed for query " \o FanQueries[i] >> ]
                /\ pc' = "loop"
           ELSE IF reply.results = << >>
           THEN /\ state' = [ state EXCEPT
                                !.set_index = i,
                                !.errors = @ \o << "No results returned for query "
                                                   \o FanQueries[i] >> ]
                /\ pc' = "loop"
           ELSE /\ state' = [ state EXCEPT
                                !.set_index = i,
                                !.result_set = reply.results,
                                !.tasks = [ k \in 1..Len(reply.results) |->
                                              [ phase |-> "pending", returned |-> FALSE ] ] ]
                /\ pc' = "snippet_gather"
    /\ UNCHANGED obs
    /\ last_node' = "NextResultSet"

\* evaluate_snippet up to its first await: the early returns, the cache
\* lookup, or the relevance call sent
SnippetStart ==
    /\ pc = "snippet_gather"
    /\ \E i \in 1..Len(state.tasks) :
          /\ state.tasks[i].phase = "pending"
          /\ LET result == state.result_set[i]
                 e == evaluate_snippet(result, state.visited_urls, state.failed_urls,
                                       state.snippet_cache, "yes")
                 h == hash_snippet(result.url, result.snippet)
             IN  IF e.called
                 THEN /\ state' = [ state EXCEPT !.tasks[i].phase = "in_flight" ]
                      /\ obs' = [ obs EXCEPT !.calls[h] = @ + 1 ]
                 ELSE /\ state' = [ state EXCEPT !.tasks[i] =
                                      [ phase |-> "done", returned |-> e.returned ] ]
                      /\ obs' = [ obs EXCEPT !.task_returned =
                                    IF e.returned THEN @ \cup { result } ELSE @ ]
    /\ UNCHANGED pc
    /\ last_node' = "SnippetStart"

\* evaluate_snippet after wait_for(llm.ainvoke(...), timeout=15): the verdict
\* is written to snippet_cache, or the error appended to errors, by the task
SnippetReply ==
    /\ pc = "snippet_gather"
    /\ \E i \in 1..Len(state.tasks), reply \in AllRelevanceReplies :
          /\ state.tasks[i].phase = "in_flight"
          /\ LET result == state.result_set[i]
                 e == evaluate_snippet(result, {}, {}, EmptyDict, reply)
                 h == hash_snippet(result.url, result.snippet)
                 siblings == InFlightTasks(state.tasks) \ { i }
             IN  /\ state' = [ state EXCEPT
                                 !.tasks[i] = [ phase |-> "done", returned |-> e.returned ],
                                 !.snippet_cache = IF e.verdict # "none"
                                                   THEN DictPut(@, h, e.verdict) ELSE @,
                                 !.errors = IF e.err # "none" THEN Append(@, e.err) ELSE @ ]
                 /\ obs' = [ obs EXCEPT
                               !.writes[h] = IF e.verdict # "none" THEN @ + 1 ELSE @,
                               !.shared_write =
                                   IF siblings = {} THEN @
                                   ELSE IF e.verdict # "none" THEN "snippet_cache"
                                   ELSE IF e.err # "none" THEN "errors"
                                   ELSE @,
                               !.task_returned = IF e.returned THEN @ \cup { result } ELSE @,
                               !.task_failed = @ \/ reply \in { "timeout", "error" } ]
    /\ UNCHANGED pc
    /\ last_node' = "SnippetReply"

\* "results = await asyncio.gather(*tasks); for r in results: if r: ..."
SnippetJoin ==
    /\ pc = "snippet_gather"
    /\ GatherDone(state.tasks)
    /\ LET returned == Select(state.result_set,
                              [ i \in 1..Len(state.tasks) |-> state.tasks[i].returned ], 1)
       IN  state' = [ state EXCEPT
                        !.evaluated_results = @ \o returned,
                        !.visited_urls = @ \cup { returned[i].url : i \in 1..Len(returned) },
                        !.result_set = << >>,
                        !.tasks = << >> ]
    /\ pc' = "loop"
    /\ UNCHANGED obs
    /\ last_node' = "SnippetJoin"

\* the loop is over: state.update(...) and return
FilterReturn ==
    /\ pc = "loop"
    /\ state.stage = "SearchFilter"
    /\ state.set_index = Len(FanQueries)
    /\ pc' = "returned"
    /\ UNCHANGED << state, obs >>
    /\ last_node' = "FilterReturn"

\* process_single_url_with_timeout(url) starts: nothing limits how many do
FetchStart ==
    /\ pc = "gather"
    /\ state.stage = "Fetch"
    /\ \E i \in 1..Len(state.fetch_tasks) :
          /\ state.fetch_tasks[i].phase = "pending"
          /\ state' = [ state EXCEPT !.fetch_tasks[i].phase = "in_flight" ]
    /\ UNCHANGED << pc, obs >>
    /\ last_node' = "FetchStart"

\* the task returns (url, content): the page, the snippet, or None
FetchReply ==
    /\ pc = "gather"
    /\ state.stage = "Fetch"
    /\ \E i \in 1..Len(state.fetch_tasks), reply \in AllScrapeReplies :
          /\ state.fetch_tasks[i].phase = "in_flight"
          /\ state' = [ state EXCEPT !.fetch_tasks[i] =
                          [ phase |-> "done",
                            content |-> process_single_url_with_timeout(
                                            NormalUrl, FetchUrl(i), reply) ] ]
          /\ obs' = [ obs EXCEPT
                        !.task_returned =
                            IF state'.fetch_tasks[i].content.len > 0 THEN @ \cup { i } ELSE @,
                        !.task_failed = @ \/ reply.kind # "ok" ]
    /\ UNCHANGED pc
    /\ last_node' = "FetchReply"

\* "processed_results = await asyncio.gather(*processing_tasks)" and the
\* loop that fills relevant_contexts and failed_urls
FetchJoin ==
    /\ pc = "gather"
    /\ state.stage = "Fetch"
    /\ GatherDone(state.fetch_tasks)
    /\ LET tasks == 1..Len(state.fetch_tasks)
           got == { i \in tasks : state.fetch_tasks[i].content.len > 0 }
       IN  state' = [ state EXCEPT
                        !.relevant_contexts = [ i \in got |-> state.fetch_tasks[i].content ],
                        !.failed_urls = UpdatedFailedUrls(@, NewFailedUrls(tasks, got)) ]
    /\ pc' = "returned"
    /\ UNCHANGED obs
    /\ last_node' = "FetchJoin"

NextFanOut ==
    \/ SearchStart
    \/ SearchReply
    \/ NextResultSet
    \/ SnippetStart
    \/ SnippetReply
    \/ SnippetJoin
    \/ FilterReturn
    \/ FetchStart
    \/ FetchReply
    \/ FetchJoin

SpecFanOut == InitFanOut /\ [][NextFanOut]_vars

\* C22: never more than MAX_CONCURRENT_SCRAPES extractions in flight
C22_FetchConcurrencyBounded ==
    Cardinality(InFlightTasks(state.fetch_tasks)) <= MAX_CONCURRENT_SCRAPES

\* C23: no task of a fan-out writes a shared collection while a sibling
\* task is in flight
C23_TasksWriteOnlyLocals ==
    obs.shared_write = "none"

\* C24: within one SearchFilter round the relevance call is made at most
\* once for a (url, snippet) pair, and its cache entry written at most once
C24_OneCallPerPair ==
    \A h \in FanHashes : obs.calls[h] <= 1 /\ obs.writes[h] <= 1

\* what the tasks of the list returned, as the stage output has it
MergedOutcomes ==
    IF state.stage = "SearchFilter"
    THEN Range(state.evaluated_results)
    ELSE DOMAIN state.relevant_contexts

\* C25: a stage returns only when all its tasks have finished, and its
\* output has the outcome of every task, whatever happened to the siblings
C25_SiblingsNotCancelled ==
    pc = "returned" =>
        /\ state.stage = "SearchFilter" => GatherDone(state.search_tasks)
        /\ GatherDone(state.tasks)
        /\ GatherDone(state.fetch_tasks)
        /\ MergedOutcomes = obs.task_returned
        /\ state.stage = "SearchFilter" =>
              { r.url : r \in obs.task_returned } \subseteq state.visited_urls
        /\ state.stage = "Fetch" =>
              state.failed_urls = (1..Len(state.fetch_tasks)) \ obs.task_returned

\* C25 witness: a SearchFilter whose first search raised and whose second
\* returned two results, one relevance call timing out and the other
\* accepted, has returned
C25_Witness ==
    /\ pc = "returned"
    /\ state.stage = "SearchFilter"
    /\ state.search_tasks[1].raised
    /\ Len(state.search_tasks[2].results) = 2
    /\ obs.task_failed
    /\ Len(state.evaluated_results) = 1
    /\ obs.calls[hash_snippet(NormalUrl, "s1")] = 1
    /\ obs.calls[hash_snippet(PdfUrl, "s3")] = 1

(***************************************************************************)
(* A collaborator that never answers.  The relevance call and the          *)
(* extractions are awaited under asyncio.wait_for, so for them no answer   *)
(* is the "timeout" reply of the worlds above; the LLM calls below are     *)
(* awaited as they are, on clients built with no timeout.                  *)
(***************************************************************************)
\* the external call a node awaits with no timeout around it, if it makes one
\* in state s
UnboundedCall(node, s, w) ==
    IF node = "create_queries"
         /\ ~ReuseFollowUps(s) /\ s.new_query # "none" /\ w.available.llm
    THEN "llm.ainvoke"
    ELSE IF node = "AI_evaluate" /\ w.available.llm /\ s.relevant_chunks # << >>
    THEN "llm.ainvoke"
    ELSE IF node = "write_report" /\ s.relevant_chunks # << >>
    THEN "llm_call_async"
    ELSE "none"

\* the awaited call never completes: the node never returns
AwaitForever(w) ==
    /\ UnboundedCall(pc, state, w) # "none"
    /\ pc' = "blocked"
    /\ last_node' = pc
    /\ obs' = NoObs
    /\ UNCHANGED state

NextHang(w) ==
    \/ Next(w)
    \/ AwaitForever(w)

SpecHang == Init /\ [][NextHang(LeanWorld)]_vars

\* C26: no node is left awaiting a call that never completes
C26_EveryCallTimesOut ==
    pc # "blocked"

\* C27: whenever the approval gate does not accept and query generation is
\* re-entered, the round-scoped state is empty and the counters are reset
C27_NoAcceptResetsRound ==
    (pc = "create_queries" /\ last_node = "user_approval" /\ ~state.proceed)
    => /\ state.search_queries = << >>
       /\ state.data = << >>
       /\ state.relevant_contexts = EmptyDict
       /\ state.relevant_chunks = << >>
       /\ state.visited_urls = {}
       /\ state.iteration_count = 0
       /\ state.approval_iteration_count = 0

\* the edges of the compiled workflow: the nodes that can run next after each
\* node ("END" for the end of the run)
Edges ==
    [ n \in {"create_queries", "user_approval", "evaluate_search_results",
             "extract_content", "embed_index_and_extract", "AI_evaluate",
             "choose_report_type", "write_report"} |->
        CASE n = "create_queries" -> {"user_approval"}
          [] n = "user_approval" -> {"create_queries", "evaluate_search_results",
                                     "choose_report_type"}
          [] n = "evaluate_search_results" -> {"extract_content"}
          [] n = "extract_content" -> {"embed_index_and_extract"}
          [] n = "embed_index_and_extract" -> {"AI_evaluate"}
          [] n = "AI_evaluate" -> {"evaluate_search_results", "choose_report_type"}
          [] n = "choose_report_type" -> {"write_report"}
          [] n = "write_report" -> {"END"} ]

LlmCallPath ==
    [ n \in {"create_queries", "evaluate_search_results", "AI_evaluate", "write_report"} |->
        CASE n = "create_queries" -> "llm.ainvoke"
          [] n = "evaluate_search_results" -> "llm.ainvoke"
          [] n = "AI_evaluate" -> "llm.ainvoke"
          [] n = "write_report" -> "llm_call_async" ]

\* the node that ran last called the LLM
MadeLlmCall ==
    \/ last_node = "create_queries" /\ obs.query_llm_call
    \/ last_node = "evaluate_search_results" /\ obs.relevance_calls # {}
    \/ last_node = "AI_evaluate" /\ obs.judge \notin {"none", "no_llm", "no_chunks"}
    \/ last_node = "write_report"
          /\ (state.report.kind = "synthesized" \/ obs.raised = "TypeError")

\* C29: every LLM call a node makes goes through llm_call_async
C29_AllLlmCallsThroughGate ==
    MadeLlmCall => LlmCallPath[last_node] = "llm_call_async"

\* C30: a (url, snippet) pair whose relevance calls in a search stage all
\* timed out or failed is not accepted, has no verdict in snippet_cache, and
\* its URL is not visited unless another result for that URL was accepted;
\* and when such a pair is returned again in the next round, with its URL
\* neither visited nor failed, it is sent to the relevance call again
C30_NoAnswerRetriedNextRound ==
    /\ [](last_node = "evaluate_search_results" =>
            \A h \in obs.unanswered :
                /\ h \notin DOMAIN state.snippet_cache
                /\ PairOf(h) \notin obs.accepted
                /\ PairOf(h).url \in state.visited_urls
                      => PairOf(h).url \in { r.url : r \in obs.accepted })
    /\ [][ pc = "evaluate_search_results" =>
             \A h \in obs.unanswered \cap obs'.seen :
                 PairOf(h).url \notin state.visited_urls \cup state.failed_urls
                 => \/ h \in obs'.relevance_calls
                    \/ PairOf(h).url \in { r.url : r \in obs'.accepted } ]_vars

\* C30 witness: a pair whose call timed out in one round was sent to the
\* relevance call again in the next
C30_Witness ==
    /\ last_node = "evaluate_search_results"
    /\ state.search_iteration_count >= 1
    /\ obs.retried # {}

C32_IndexFailuresRecorded ==
    [][ pc = "embed_index_and_extract" =>
          /\ pc' = "AI_evaluate"
          /\ DOMAIN state.relevant_contexts = {} => obs'.index = "no_contexts"
          /\ obs'.index \in { "no_contexts", "index_error", "retrieval_error" } =>
                /\ state'.relevant_chunks = << >>
                /\ Len(state'.error) = Len(state.error) + 1
                /\ SubSeq(state'.error, 1, Len(state.error)) = state.error ]_vars

\* C32 witness: in a later round, with an error already recorded, the
\* retrieval failed
C32_Witness ==
    /\ last_node = "embed_index_and_extract"
    /\ obs.index = "retrieval_error"
    /\ state.search_iteration_count >= 1
    /\ Len(state.error) >= 2
    /\ state.relevant_chunks = << >>

\* C33: when write_report has run the section loop, section_texts has one
\* entry per section of the outline, in the outline's order; the entry of a
\* section whose call returned None holds the placeholder, and the others hold
\* the text the LLM returned
C33_FailedSectionGetsPlaceholder ==
    (last_node = "write_report" /\ obs.section_replies # << >>) =>
        /\ Len(obs.section_texts) = Len(sanitized_sections(state.report_type))
        /\ \A i \in 1..Len(obs.section_texts) :
              /\ obs.section_texts[i].title = i
              /\ obs.section_texts[i].body =
                    IF obs.section_replies[i] < 0 THEN "placeholder" ELSE "text"

\* C33 witness: the call for the second section failed, the others did not,
\* and the report was stored
C33_Witness ==
    /\ last_node = "write_report"
    /\ pc = "END"
    /\ Len(obs.section_replies) >= 3
    /\ obs.section_replies[1] >= 0
    /\ obs.section_replies[2] < 0
    /\ obs.section_replies[3] >= 0
    /\ obs.section_texts[2].body = "placeholder"

\* C34: when the sections come to fewer words than the minimum and than 90%
\* of the budget, write_report asks for an expansion of the whole report and
\* returns with a report stored: the expansion's text, or the sections
\* unchanged when the expansion came back empty
C34_ExpansionRequestsReturn ==
    ( /\ last_node = "write_report"
      /\ obs.section_replies # << >>
      /\ NeedsExpansion(state.report_type,
                        SumTargets(sanitized_sections(state.report_type)),
                        obs.generated_words) )
    => /\ obs.raised = "none"
       /\ state.report.kind = "synthesized"

(***************************************************************************)
(* The outline of write_report as a function of what was parsed from the   *)
(* LLM's answer: any number of sections, any target_words.  For the        *)
(* target_words drawn here int(tw * scale_factor), a float product, is the *)
(* floor of the exact quotient that Rescale computes.                      *)
(***************************************************************************)
\* longest outline the LLM returns in the model
MaxOutlineLen == 9

\* parsed['sections']: fewer words than any clamp, a mid-size section, more
\* words than any clamp
Outlines ==
    UNION { [ 1..n -> [ title_words : { 1 }, target_words : { 10, 600, 5000 } ] ]
            : n \in 0..MaxOutlineLen }

InitOutline ==
    /\ pc = "parsed"
    /\ state \in [ report_type : { "concise", "detailed" },
                   sections : Outlines,
                   sanitized_sections : { << >> } ]
    /\ last_node = "START"
    /\ obs = NoObs

\* from "if not sections" to the end of the rescaling
SanitizeStep ==
    /\ pc = "parsed"
    /\ LET sections == IF state.sections = << >>
                       THEN FallbackOutline(state.report_type)
                       ELSE state.sections
       IN  state' = [ state EXCEPT !.sections = sections,
                                   !.sanitized_sections =
                                       SanitizeOutline(state.report_type, sections) ]
    /\ pc' = "sanitized"
    /\ last_node' = "write_report"
    /\ UNCHANGED obs

SpecOutline == InitOutline /\ [][SanitizeStep]_vars

C37_ReportTypeAlwaysValid ==
    /\ last_node = "choose_report_type" =>
          /\ pc = "write_report"
          /\ state.report_type \in { "concise", "detailed" }
          /\ obs.prompts <= 5
          /\ obs.report_answer = "invalid" => state.report_type = "detailed"
          /\ ( /\ state.non_interactive
               /\ state.report_type_choice \notin { "none", "concise", "c", "detailed", "d" } )
             => state.report_type = "detailed"
          /\ ( /\ state.non_interactive
               /\ state.report_type_choice = "none"
               /\ state.auto_report_type \notin { "none", "concise", "detailed" } )
             => state.report_type = "detailed"
    /\ last_node = "write_report" => state.report_type \in { "concise", "detailed" }

\* C37 witness: a report type that was pre-configured with an invalid value
\* came out as "detailed"
C37_Witness ==
    /\ last_node = "choose_report_type"
    /\ state.non_interactive
    /\ state.report_type_choice = "bogus"
    /\ state.report_type = "detailed"

\* C38: when write_report runs with empty relevant_chunks it requests no
\* section from the LLM, stores the "Could not generate a report" message as
\* the report and adds it to error, calls the text sink and the PDF sink, adds
\* the message of a sink that failed to error, and ends the run normally
C38_NoEvidenceReportPersisted ==
    [][ (pc = "write_report" /\ state.relevant_chunks = << >>) =>
          /\ pc' = "END"
          /\ obs'.raised = "none"
          /\ obs'.section_replies = << >>
          /\ state'.report = [ kind |-> "no_evidence",
                               words |-> NoEvidenceWords(state.new_query) ]
          /\ "Could not generate a report. No relevant information was found"
                \in Range(state'.error)
          /\ Range(state.error) \subseteq Range(state'.error)
          /\ obs'.sinks_called = { "text", "pdf" }
          /\ "text" \in obs'.sinks_failed =>
                "Failed to save report to text file" \in Range(state'.error)
          /\ "pdf" \in obs'.sinks_failed =>
                "Error generating PDF" \in Range(state'.error) ]_vars

\* C38 witness: the no-evidence message was stored although both sinks failed
C38_Witness ==
    /\ last_node = "write_report"
    /\ pc = "END"
    /\ state.report.kind = "no_evidence"
    /\ obs.sinks_failed = { "text", "pdf" }

\* C39: whenever create_queries is about to run, the follow-up queries or
\* the retrieved chunks are empty, so it does not take the branch that reuses
\* the Judge's follow-up queries
C39_ReuseBranchNeverTaken ==
    pc = "create_queries" =>
        /\ state.suggested_follow_up_queries = << >> \/ state.relevant_chunks = << >>
        /\ ~ReuseFollowUps(state)

\* C39 witness: create_queries ran again after the approval gate sent the run
\* back, and asked the LLM for queries
C39_Witness ==
    /\ last_node = "create_queries"
    /\ obs.loopbacks >= 1
    /\ obs.query_llm_call

====
